---- MODULE Spec2Model ----
(***************************************************************************)
(* Orchestration pipeline (app/orchestration/graph.py) and long-term       *)
(* memory (app/memory/memory_agent.py, app/memory/long_term.py).           *)
(*                                                                         *)
(* A Python str is a sequence of one-character strings; a character        *)
(* outside ASCII is written as a named atom ("c_cedil" for c-cedilla).     *)
(* A dynamically typed Python value is a record with a type tag.           *)
(***************************************************************************)
EXTENDS Integers, Sequences, FiniteSets, TLC

(***************************************************************************)
(* Python str operations                                                   *)
(***************************************************************************)
SetMin(S) == CHOOSE x \in S : \A y \in S : x <= y

\* the greatest element, as the least of the negated ones
SetMax(S) == 0 - SetMin({0 - x : x \in S})

UpperChars == <<"A","B","C","D","E","F","G","H","I","J","K","L","M","N","O","P","Q","R","S","T","U","V","W","X","Y","Z","A_acute","A_tilde","C_cedil","E_acute","O_tilde">>

LowerChars == <<"a","b","c","d","e","f","g","h","i","j","k","l","m","n","o","p","q","r","s","t","u","v","w","x","y","z","a_acute","a_tilde","c_cedil","e_acute","o_tilde">>

lower_char(c) ==
    LET I == {i \in 1..Len(UpperChars) : UpperChars[i] = c}
    IN  IF I = {} THEN c ELSE LowerChars[SetMin(I)]

\* str.lower()
str_lower(s) == [i \in 1..Len(s) |-> lower_char(s[i])]

\* sub in s
str_contains(s, sub) ==
    \/ sub = <<>>
    \/ \E i \in 1..(Len(s) - Len(sub) + 1) :
          s[i] = sub[1] /\ SubSeq(s, i, i + Len(sub) - 1) = sub

\* s.find(c) for a one-character c: 0-based index of the first c, or -1
str_find(s, c) ==
    LET I == {i \in 1..Len(s) : s[i] = c}
    IN  IF I = {} THEN -1 ELSE SetMin(I) - 1

\* s.rfind(c) for a one-character c: 0-based index of the last c, or -1
str_rfind(s, c) ==
    LET I == {i \in 1..Len(s) : s[i] = c}
    IN  IF I = {} THEN -1 ELSE SetMax(I) - 1

\* s[a:b] for 0 <= a
str_slice(s, a, b) == SubSeq(s, a + 1, IF b > Len(s) THEN Len(s) ELSE b)

Whitespace == {" ", "\n", "\t", "\r"}

\* s.strip()
str_strip(s) ==
    LET I == {i \in 1..Len(s) : s[i] \notin Whitespace}
    IN  IF I = {} THEN <<>> ELSE SubSeq(s, SetMin(I), SetMax(I))

\* set(s.split()): the maximal runs of non-whitespace characters
str_words(s) ==
    LET starts == {i \in 1..Len(s) : s[i] \notin Whitespace /\ (i = 1 \/ s[i - 1] \in Whitespace)}
        ends   == {j \in 1..Len(s) : s[j] \notin Whitespace /\ (j = Len(s) \/ s[j + 1] \in Whitespace)}
    IN  {SubSeq(s, i, SetMin({j \in ends : j >= i})) : i \in starts}

RECURSIVE str_join(_, _)
\* sep.join(parts)
str_join(sep, parts) ==
    IF parts = <<>> THEN <<>>
    ELSE IF Len(parts) = 1 THEN parts[1]
    ELSE parts[1] \o sep \o str_join(sep, Tail(parts))

(***************************************************************************)
(* Python values: None, bool, int, str, list, dict                         *)
(***************************************************************************)
PyNone == [ty |-> "none", b |-> FALSE, n |-> 0, s |-> <<>>, items |-> <<>>, keys |-> <<>>]

PyBool(x) == [ty |-> "bool", b |-> x, n |-> 0, s |-> <<>>, items |-> <<>>, keys |-> <<>>]

PyInt(x) == [ty |-> "int", b |-> FALSE, n |-> x, s |-> <<>>, items |-> <<>>, keys |-> <<>>]

PyStr(x) == [ty |-> "str", b |-> FALSE, n |-> 0, s |-> x, items |-> <<>>, keys |-> <<>>]

PyList(xs) == [ty |-> "list", b |-> FALSE, n |-> 0, s |-> <<>>, items |-> xs, keys |-> <<>>]

\* a dict with keys ks (each a str) and values vs, in insertion order
PyDict(ks, vs) == [ty |-> "dict", b |-> FALSE, n |-> 0, s |-> <<>>, items |-> vs, keys |-> ks]

EmptyDict == PyDict(<<>>, <<>>)

\* bool(v)
py_truthy(v) ==
    CASE v.ty = "none" -> FALSE
      [] v.ty = "bool" -> v.b
      [] v.ty = "int"  -> v.n # 0
      [] v.ty = "str"  -> v.s # <<>>
      [] OTHER         -> v.items # <<>>

\* a or b
py_or(a, b) == IF py_truthy(a) THEN a ELSE b

\* d.get(k, default) for a dict d
dict_get(d, k, default) ==
    LET I == {i \in 1..Len(d.keys) : d.keys[i] = k}
    IN  IF I = {} THEN default ELSE d.items[SetMax(I)]

\* d[k] = v
dict_put(d, k, v) ==
    LET I == {i \in 1..Len(d.keys) : d.keys[i] = k}
    IN  IF I = {} THEN PyDict(Append(d.keys, k), Append(d.items, v))
        ELSE PyDict(d.keys, [d.items EXCEPT ![SetMin(I)] = v])

DigitChars == <<"0","1","2","3","4","5","6","7","8","9">>

RECURSIVE int_str(_)
\* str(n) for an int
int_str(n) ==
    IF n < 0 THEN <<"-">> \o int_str(0 - n)
    ELSE IF n < 10 THEN <<DigitChars[n + 1]>>
    ELSE int_str(n \div 10) \o <<DigitChars[(n % 10) + 1]>>

RECURSIVE str_escape(_)
\* the escapes repr() applies inside a quoted str
str_escape(s) ==
    IF s = <<>> THEN <<>>
    ELSE (CASE Head(s) = "\n" -> <<"\\", "n">>
            [] Head(s) = "\t" -> <<"\\", "t">>
            [] Head(s) = "\r" -> <<"\\", "r">>
            [] Head(s) = "\\" -> <<"\\", "\\">>
            [] OTHER -> <<Head(s)>>) \o str_escape(Tail(s))

\* repr(s) for a str: single quotes unless s holds a ' and no "
str_repr(s) ==
    LET hasS == \E i \in 1..Len(s) : s[i] = "'"
        hasD == \E i \in 1..Len(s) : s[i] = "\""
        q    == IF hasS /\ ~hasD THEN "\"" ELSE "'"
        esc  == str_escape(s)
        body == IF hasS /\ hasD
                THEN str_join(<<"\\", "'">>,
                         LET RECURSIVE parts(_, _)
                             parts(t, acc) ==
                                 IF t = <<>> THEN <<acc>>
                                 ELSE IF Head(t) = "'" THEN <<acc>> \o parts(Tail(t), <<>>)
                                 ELSE parts(Tail(t), Append(acc, Head(t)))
                         IN  parts(esc, <<>>))
                ELSE esc
    IN  <<q>> \o body \o <<q>>

RECURSIVE py_repr(_)
\* repr(v)
py_repr(v) ==
    CASE v.ty = "none" -> <<"N","o","n","e">>
      [] v.ty = "bool" -> IF v.b THEN <<"T","r","u","e">> ELSE <<"F","a","l","s","e">>
      [] v.ty = "int"  -> int_str(v.n)
      [] v.ty = "str"  -> str_repr(v.s)
      [] v.ty = "list" ->
            <<"[">> \o str_join(<<",", " ">>, [i \in 1..Len(v.items) |-> py_repr(v.items[i])]) \o <<"]">>
      [] OTHER ->
            <<"{">> \o str_join(<<",", " ">>,
                [i \in 1..Len(v.items) |->
                    str_repr(v.keys[i]) \o <<":", " ">> \o py_repr(v.items[i])]) \o <<"}">>

\* str(v), also the formatting of v in an f-string
py_str(v) == IF v.ty = "str" THEN v.s ELSE py_repr(v)

(***************************************************************************)
(* json.loads, for JSON without escape sequences and without fractions or  *)
(* exponents (the modelled replies contain none)                           *)
(***************************************************************************)
ParseFail == [ok |-> FALSE, v |-> PyNone, next |-> 0]

ParseOk(v, nxt) == [ok |-> TRUE, v |-> v, next |-> nxt]

RECURSIVE skip_ws(_, _)
skip_ws(s, i) == IF i <= Len(s) /\ s[i] \in Whitespace THEN skip_ws(s, i + 1) ELSE i

has_prefix(s, i, lit) == i + Len(lit) - 1 <= Len(s) /\ SubSeq(s, i, i + Len(lit) - 1) = lit

digit_value(c) == SetMin({d \in 1..10 : DigitChars[d] = c}) - 1

is_digit(c) == \E d \in 1..10 : DigitChars[d] = c

RECURSIVE digits_value(_, _, _)
digits_value(s, i, j) ==
    IF i > j THEN 0 ELSE digits_value(s, i, j - 1) * 10 + digit_value(s[j])

\* a JSON string starting at the quote s[i]
json_string(s, i) ==
    LET J == {j \in (i + 1)..Len(s) : s[j] = "\""}
    IN  IF J = {} THEN ParseFail
        ELSE LET j    == SetMin(J)
                 body == SubSeq(s, i + 1, j - 1)
             IN  IF \E k \in 1..Len(body) : body[k] \in {"\n", "\t", "\r", "\\"}
                 THEN ParseFail
                 ELSE ParseOk(PyStr(body), j + 1)

\* a JSON integer starting at s[i]
json_number(s, i) ==
    LET neg   == s[i] = "-"
        first == IF neg THEN i + 1 ELSE i
        stop  == {j \in first..(Len(s) + 1) : j > Len(s) \/ ~is_digit(s[j])}
        last  == SetMin(stop) - 1
    IN  IF last < first THEN ParseFail
        ELSE IF s[first] = "0" /\ last > first THEN ParseFail
        ELSE ParseOk(PyInt((IF neg THEN -1 ELSE 1) * digits_value(s, first, last)), last + 1)

RECURSIVE json_value(_, _), json_members(_, _, _), json_elements(_, _, _)
json_value(s, i0) ==
    LET i == skip_ws(s, i0)
    IN  IF i > Len(s) THEN ParseFail
        ELSE CASE s[i] = "{" ->
                    LET j == skip_ws(s, i + 1)
                    IN  IF j <= Len(s) /\ s[j] = "}" THEN ParseOk(EmptyDict, j + 1)
                        ELSE json_members(s, j, EmptyDict)
               [] s[i] = "[" ->
                    LET j == skip_ws(s, i + 1)
                    IN  IF j <= Len(s) /\ s[j] = "]" THEN ParseOk(PyList(<<>>), j + 1)
                        ELSE json_elements(s, j, <<>>)
               [] s[i] = "\"" -> json_string(s, i)
               [] s[i] = "-" \/ is_digit(s[i]) -> json_number(s, i)
               [] has_prefix(s, i, <<"n","u","l","l">>) -> ParseOk(PyNone, i + 4)
               [] has_prefix(s, i, <<"t","r","u","e">>) -> ParseOk(PyBool(TRUE), i + 4)
               [] has_prefix(s, i, <<"f","a","l","s","e">>) -> ParseOk(PyBool(FALSE), i + 5)
               [] OTHER -> ParseFail

\* the members of an object from s[i] on, d holding those read so far
json_members(s, i, d) ==
    IF i > Len(s) \/ s[i] # "\"" THEN ParseFail
    ELSE LET k == json_string(s, i)
         IN  IF ~k.ok THEN ParseFail
             ELSE LET c == skip_ws(s, k.next)
                  IN  IF c > Len(s) \/ s[c] # ":" THEN ParseFail
                      ELSE LET v == json_value(s, c + 1)
                           IN  IF ~v.ok THEN ParseFail
                               ELSE LET e  == skip_ws(s, v.next)
                                        d2 == dict_put(d, k.v.s, v.v)
                                    IN  IF e > Len(s) THEN ParseFail
                                        ELSE IF s[e] = "}" THEN ParseOk(d2, e + 1)
                                        ELSE IF s[e] = "," THEN json_members(s, skip_ws(s, e + 1), d2)
                                        ELSE ParseFail

\* the elements of an array from s[i] on, acc holding those read so far
json_elements(s, i, acc) ==
    LET v == json_value(s, i)
    IN  IF ~v.ok THEN ParseFail
        ELSE LET e == skip_ws(s, v.next)
             IN  IF e > Len(s) THEN ParseFail
                 ELSE IF s[e] = "]" THEN ParseOk(PyList(Append(acc, v.v)), e + 1)
                 ELSE IF s[e] = "," THEN json_elements(s, e + 1, Append(acc, v.v))
                 ELSE ParseFail

\* json.loads(s): ok = FALSE stands for JSONDecodeError
json_loads(s) ==
    LET r == json_value(s, 1)
    IN  IF r.ok /\ skip_ws(s, r.next) = Len(s) + 1 THEN r ELSE ParseFail

(***************************************************************************)
(* graph.py helpers                                                        *)
(***************************************************************************)
\* one element of a block list
normalize_block(item) ==
    IF item.ty = "dict"
    THEN py_str(py_or(dict_get(item, <<"t","e","x","t">>, PyNone),
                      py_or(dict_get(item, <<"c","o","n","t","e","n","t">>, PyNone), item)))
    ELSE py_str(item)

normalize_llm_content(content) ==
    CASE content.ty = "none" -> <<>>
      [] content.ty = "str"  -> content.s
      [] content.ty = "list" ->
            str_join(<<"\n">>, [i \in 1..Len(content.items) |-> normalize_block(content.items[i])])
      [] OTHER -> py_str(content)

\* returns the parsed dict, or PyNone for None
\* safe_parse_json with the span closed at the first '}'
safe_parse_json_first_close(text) ==
    IF text = <<>> THEN PyNone
    ELSE LET start == str_find(text, "{")
             end   == str_find(text, "}") + 1
         IN  IF start = -1 \/ end <= start THEN PyNone
             ELSE LET parsed == json_loads(str_slice(text, start, end))
                  IN  IF parsed.ok /\ parsed.v.ty = "dict" THEN parsed.v ELSE PyNone

safe_parse_json(text) ==
    IF text = <<>> THEN PyNone
    ELSE LET start == str_find(text, "{")
             end   == str_rfind(text, "}") + 1
         IN  IF start = -1 \/ end <= start THEN PyNone
             ELSE LET parsed == json_loads(str_slice(text, start, end))
                  IN  IF parsed.ok /\ parsed.v.ty = "dict" THEN parsed.v ELSE PyNone

(***************************************************************************)
(* Long-term memory (long_term.py) and the memory agent (memory_agent.py)  *)
(*                                                                         *)
(* faiss_env is the process environment of the similarity index: "absent"  *)
(* when faiss cannot be imported, else the geometry of the embedding       *)
(* function, which the program does not fix: among the stored embeddings   *)
(* that differ from the query's, "near_first" ranks earlier entries        *)
(* closer and "near_last" later entries closer.                            *)
(***************************************************************************)
VARIABLES faiss_env

PREFERENCIA_USUARIO == "preferencia_usuario"

DECISAO_TOMADA == "decisao_tomada"

RESOLUCAO_AMBIGUIDADE == "resolucao_ambiguidade"

RESUMO_INTERACAO == "resumo_interacao"

MemoryType == {PREFERENCIA_USUARIO, DECISAO_TOMADA, RESOLUCAO_AMBIGUIDADE, RESUMO_INTERACAO}

\* tipo=None of search and recall
NoTipo == "none"

MIN_CONTENT_LEN == 10

MAX_CONTENT_LEN == 2000

MAX_SUMMARY_LEN == 500

DUPLICATE_SEARCH_LIMIT == 3

AMBIGUITY_RECALL_LIMIT == 10

sensitive_patterns ==
    << <<"s","e","n","h","a">>, <<"p","a","s","s","w","o","r","d">>, <<"t","o","k","e","n">>, <<"s","e","c","r","e","t">>, <<"a","p","i","_","k","e","y">>,
       <<"c","p","f">>, <<"r","g">>, <<"c","a","r","t","a","o">>, <<"c","r","e","d","i","t","_","c","a","r","d">> >>

sql_patterns == << <<"s","e","l","e","c","t"," ">>, <<"i","n","s","e","r","t"," ">>, <<"u","p","d","a","t","e"," ">>, <<"d","e","l","e","t","e"," ">>, <<"f","r","o","m"," ">> >>

\* should_memorize looking for the sensitive tokens in content as written
should_memorize_cased(content, tipo) ==
    IF content = <<>> \/ Len(str_strip(content)) < MIN_CONTENT_LEN THEN FALSE
    ELSE IF \E i \in 1..Len(sensitive_patterns) : str_contains(content, sensitive_patterns[i]) THEN FALSE
    ELSE IF Cardinality({i \in 1..Len(sql_patterns) : str_contains(str_lower(content), sql_patterns[i])}) >= 2 THEN FALSE
    ELSE IF Len(content) > MAX_CONTENT_LEN THEN FALSE
    ELSE tipo = RESUMO_INTERACAO => Len(content) < MAX_SUMMARY_LEN

\* should_memorize rejecting SQL from three keywords on
should_memorize_three_sql(content, tipo) ==
    IF content = <<>> \/ Len(str_strip(content)) < MIN_CONTENT_LEN THEN FALSE
    ELSE IF \E i \in 1..Len(sensitive_patterns) : str_contains(str_lower(content), sensitive_patterns[i]) THEN FALSE
    ELSE IF Cardinality({i \in 1..Len(sql_patterns) : str_contains(str_lower(content), sql_patterns[i])}) >= 3 THEN FALSE
    ELSE IF Len(content) > MAX_CONTENT_LEN THEN FALSE
    ELSE tipo = RESUMO_INTERACAO => Len(content) < MAX_SUMMARY_LEN

\* should_memorize measuring the content without stripping it
should_memorize_unstripped(content, tipo) ==
    IF content = <<>> \/ Len(content) < MIN_CONTENT_LEN THEN FALSE
    ELSE IF \E i \in 1..Len(sensitive_patterns) : str_contains(str_lower(content), sensitive_patterns[i]) THEN FALSE
    ELSE IF Cardinality({i \in 1..Len(sql_patterns) : str_contains(str_lower(content), sql_patterns[i])}) >= 2 THEN FALSE
    ELSE IF Len(content) > MAX_CONTENT_LEN THEN FALSE
    ELSE tipo = RESUMO_INTERACAO => Len(content) < MAX_SUMMARY_LEN

should_memorize(content, tipo) ==
    IF content = <<>> \/ Len(str_strip(content)) < MIN_CONTENT_LEN THEN FALSE
    ELSE LET content_lower == str_lower(content)
             sql_count == Cardinality({i \in 1..Len(sql_patterns) :
                              str_contains(content_lower, sql_patterns[i])})
         IN  IF \E i \in 1..Len(sensitive_patterns) :
                    str_contains(content_lower, sensitive_patterns[i]) THEN FALSE
             ELSE IF sql_count >= 2 THEN FALSE
             ELSE IF Len(content) > MAX_CONTENT_LEN THEN FALSE
             ELSE IF tipo \in {RESOLUCAO_AMBIGUIDADE, PREFERENCIA_USUARIO, DECISAO_TOMADA} THEN TRUE
             ELSE IF tipo = RESUMO_INTERACAO THEN Len(content) < MAX_SUMMARY_LEN
             ELSE FALSE

\* a LongTermMemory object: _entries, _embeddings and whether _faiss_index is set
EmptyStore == [entries |-> <<>>, embeddings |-> <<>>, has_index |-> FALSE]

\* embedding_id None
NoId == [n |-> -1, ts |-> -1]

\* f"mem_{n}_{ts}"
embedding_id(n, ts) == [n |-> n, ts |-> ts]

\* a MemoryEntry (timestamp and metadata are left out: nothing reads them)
MemoryEntry(user_id, tipo, conteudo, dominio) ==
    [user_id |-> user_id, tipo |-> tipo, conteudo |-> conteudo, dominio |-> dominio,
     version |-> 1, embedding_id |-> NoId]

\* the vector of a text: equal texts have equal vectors
get_embedding(text) == [of |-> text]

RECURSIVE top_ranked(_, _, _)
\* the first k positions of C by descending key, equal keys by ascending position
top_ranked(C, key, k) ==
    IF C = {} \/ k <= 0 THEN <<>>
    ELSE LET best == CHOOSE i \in C :
                        \A j \in C : key[i] > key[j] \/ (key[i] = key[j] /\ i <= j)
         IN  <<best>> \o top_ranked(C \ {best}, key, k - 1)

\* the positions of the entries search keeps after its tipo and dominio filters
filtered_entries(store, tipo, dominio) ==
    {i \in 1..Len(store.entries) :
        /\ (tipo # NoTipo => store.entries[i].tipo = tipo)
        /\ (py_truthy(dominio) => store.entries[i].dominio = dominio)}

\* sorted by score, best first, cut to limit: positions
ranked_by_score(P, score, limit) == top_ranked({i \in P : score[i] > 0}, score, limit)

\* the words of query that conteudo holds
word_overlap(query, conteudo) ==
    Cardinality(str_words(str_lower(query)) \cap str_words(str_lower(conteudo)))

\* positions, best first
simple_search(store, query, P, limit) ==
    ranked_by_score(P, [i \in P |-> word_overlap(query, store.entries[i].conteudo)], limit)

\* IndexError of self._embeddings[i]
faiss_search_raises(store, P) == \E i \in P : i > Len(store.embeddings)

\* positions, nearest first
faiss_search(store, query, P, limit) ==
    LET q == get_embedding(query)
        distance == [i \in P |->
            IF store.embeddings[i] = q THEN 0
            ELSE IF faiss_env = "near_first" THEN 1 + Cardinality({j \in P : j < i})
            ELSE 1 + Cardinality({j \in P : j > i})]
        k == IF limit < Cardinality(P) THEN limit ELSE Cardinality(P)
    IN  top_ranked(P, [i \in P |-> 0 - distance[i]], k)

\* the entries at the positions found
entries_at(store, found) == [n \in 1..Len(found) |-> store.entries[found[n]]]

\* the index when there is one and it answers, else the word search
search_positions(store, query, P, limit) ==
    IF P = {} THEN <<>>
    ELSE IF store.has_index /\ ~faiss_search_raises(store, P)
    THEN faiss_search(store, query, P, limit)
    ELSE simple_search(store, query, P, limit)

\* LongTermMemory.search: the entries found, best first
lt_search(store, query, limit, tipo, dominio) ==
    IF store.entries = <<>> THEN <<>>
    ELSE entries_at(store,
             search_positions(store, query, filtered_entries(store, tipo, dominio), limit))

\* LongTermMemory.add at time ts: the store after it and the identifier returned
lt_add(store, user_id, entry, ts) ==
    LET id == embedding_id(Len(store.entries), ts)
        e  == [entry EXCEPT !.user_id = user_id, !.embedding_id = id]
    IN  [store |-> [entries    |-> Append(store.entries, e),
                    embeddings |-> Append(store.embeddings, get_embedding(e.conteudo)),
                    has_index  |-> faiss_env # "absent"],
         id |-> id]

\* intersection and union sizes of two word sets
jaccard(words1, words2) ==
    IF words1 = {} \/ words2 = {} THEN [num |-> 0, den |-> 1]
    ELSE [num |-> Cardinality(words1 \cap words2), den |-> Cardinality(words1 \cup words2)]

calculate_similarity(text1, text2) ==
    jaccard(str_words(str_lower(text1)), str_words(str_lower(text2)))

\* similarity > 0.9
above_threshold(sim) == sim.num * 10 > sim.den * 9

\* _check_duplicate finding nothing
check_duplicate_blind(store, content, tipo, dominio) == <<>>

\* the entries of the duplicate search that are similar enough, in search order
check_duplicate(store, content, tipo, dominio) ==
    LET existing == lt_search(store, content, DUPLICATE_SEARCH_LIMIT, tipo, dominio)
    IN  SelectSeq(existing,
            LAMBDA e : above_threshold(calculate_similarity(content, e.conteudo)))

\* the result of memorize for an entry LongTermMemory.add stored
memorize_added(r) == [store |-> r.store, id |-> r.id, created |-> TRUE]

\* memorize after the gate, dup being the result of the duplicate check
memorize_unless_duplicate(store, user_id, content, tipo, dominio, ts, dup) ==
    IF dup # <<>>
    THEN [store |-> store, id |-> dup[1].embedding_id, created |-> FALSE]
    ELSE memorize_added(lt_add(store, user_id, MemoryEntry(user_id, tipo, content, dominio), ts))

\* MemoryAgent.memorize at time ts: the store after it, the identifier returned
\* (NoId for None) and whether an entry was created
memorize(store, user_id, content, tipo, dominio, ts) ==
    IF ~should_memorize(content, tipo)
    THEN [store |-> store, id |-> NoId, created |-> FALSE]
    ELSE memorize_unless_duplicate(store, user_id, content, tipo, dominio, ts,
                                   check_duplicate(store, content, tipo, dominio))

memorize_ambiguity_resolution(store, user_id, term, resolution, dominio, ts) ==
    memorize(store, user_id, py_str(term) \o <<" ","r","e","f","e","r","e","-","s","e"," ","a"," ">> \o py_str(resolution),
             RESOLUCAO_AMBIGUIDADE, dominio, ts)

\* recall that returns the whole log
recall_everything(store, query, limit, tipo, dominio) == store.entries

\* MemoryAgent.recall
recall(store, query, limit, tipo, dominio) == lt_search(store, query, limit, tipo, dominio)

recall_ambiguity_resolutions(store, query) ==
    recall(store, query, AMBIGUITY_RECALL_LIMIT, RESOLUCAO_AMBIGUIDADE, PyNone)

(***************************************************************************)
(* Orchestration pipeline (graph.py)                                       *)
(*                                                                         *)
(* A gateway reply is [raised, content]: llm.invoke either raises (content *)
(* then holds the exception's message) or returns a message with that      *)
(* content.  A node is an operator from the pipeline state and the replies *)
(* of its gateway calls to [raised, upd, calls]: whether an exception      *)
(* leaves the node, the partial update it returns, and the gateway calls   *)
(* it made, in order.                                                      *)
(***************************************************************************)
MIN_REPORT_LEN == 50

MEMORY_CONTEXT_LIMIT == 5

VISUALIZATION_KEYWORDS ==
    << <<"g","r","a_acute","f","i","c","o">>, <<"g","r","a","f","i","c","o">>, <<"c","h","a","r","t">>, <<"v","i","s","u","a","l","i","z","a","c_cedil","a_tilde","o">>, <<"v","i","s","u","a","l","i","z","a","c","a","o">>,
       <<"p","l","o","t">>, <<"p","l","o","t","a","r">>, <<"d","e","s","e","n","h","a","r">>, <<"m","o","s","t","r","a","r"," ","g","r","a_acute","f","i","c","o">>, <<"e","x","i","b","i","r"," ","g","r","a_acute","f","i","c","o">>,
       <<"b","a","r","r","a","s">>, <<"p","i","z","z","a">>, <<"l","i","n","h","a">>, <<"d","i","s","p","e","r","s","a_tilde","o">>, <<"h","i","s","t","o","g","r","a","m","a">> >>

\* v[:n] is defined
py_sliceable(v) == v.ty \in {"str", "list"}

\* len(v) and iter(v) are defined
py_sized(v) == v.ty \in {"str", "list", "dict"}

\* the elements a for loop over v visits
py_iter(v) ==
    CASE v.ty = "list" -> v.items
      [] v.ty = "str"  -> [i \in 1..Len(v.s) |-> PyStr(<<v.s[i]>>)]
      [] OTHER         -> [i \in 1..Len(v.keys) |-> PyStr(v.keys[i])]

\* memory_status[key] = value on a dict
status_set(memory_status, key, value) ==
    [k \in (DOMAIN memory_status) \cup {key} |-> IF k = key THEN value ELSE memory_status[k]]

\* status_copy that starts from an empty dict
status_empty(st) == <<>>

\* state.get("memory_status", {}).copy()
status_copy(st) == st.memory_status

NoUpdate == <<>>

NodeRaise(calls) == [raised |-> TRUE, upd |-> NoUpdate, calls |-> calls]

NodeReturn(upd, calls) == [raised |-> FALSE, upd |-> upd, calls |-> calls]

\* one llm.invoke: the caller, whether tools were bound, whether it returned
GatewayCall(label, tools, ok) == [call |-> label, tools |-> tools, ok |-> ok]

\* the initial_state of process_query
initial_state(query, active_domains) ==
    [messages                 |-> <<>>,
     original_query           |-> query,
     normalized_query         |-> PyStr(<<>>),
     active_domains           |-> active_domains,
     group_context            |-> EmptyDict,
     user_id                  |-> <<>>,
     ambiguity_result         |-> EmptyDict,
     ambiguity_resolved       |-> FALSE,
     plan                     |-> PyList(<<>>),
     subagent_responses       |-> <<>>,
     final_report             |-> <<>>,
     validation               |-> EmptyDict,
     final_response           |-> <<>>,
     sources                  |-> <<>>,
     session_id               |-> <<>>,
     visualization_requested  |-> PyBool(FALSE),
     visualization_suggestion |-> PyNone,
     visualization_data       |-> PyNone,
     memory_context           |-> <<>>,
     memory_status            |-> [contexto_carregado    |-> FALSE,
                                   memoria_consultada    |-> FALSE,
                                   ambiguidade_resolvida |-> FALSE,
                                   resposta_entregue     |-> FALSE]]

\* the engine's merge of a node's update: messages are appended (add_messages),
\* every other key is overwritten
merge_update(st, upd) ==
    [f \in DOMAIN st |->
        IF f \in DOMAIN upd
        THEN IF f = "messages" THEN st[f] \o upd[f] ELSE upd[f]
        ELSE st[f]]

\* memory_recall_update that leaves contexto_carregado as it was
memory_recall_unloaded(st, has_agent, memory_context) ==
    NodeReturn([memory_context |-> memory_context,
                memory_status  |-> status_set(status_copy(st), "memoria_consultada", has_agent),
                messages       |-> <<>>],
               <<>>)

\* memory_recall_update that marks the memory as consulted without an agent too
memory_recall_always_consulted(st, has_agent, memory_context) ==
    NodeReturn([memory_context |-> memory_context,
                memory_status  |-> status_set(status_set(status_copy(st), "memoria_consultada", TRUE),
                                              "contexto_carregado", TRUE),
                messages       |-> <<>>],
               <<>>)

\* the update memory_recall_node returns for the memory_context it built
memory_recall_update(st, has_agent, memory_context) ==
    NodeReturn([memory_context |-> memory_context,
                memory_status  |-> status_set(status_set(status_copy(st), "memoria_consultada", has_agent),
                                              "contexto_carregado", TRUE),
                messages       |-> << <<"M","e","m","o_acute","r","i","a"," ","c","a","r","r","e","g","a","d","a"," ","(">>
                                      \o int_str(Len(memory_context)) \o <<")">> >>],
               <<>>)

\* the memory_context entries of the memories recalled
memory_context_of(memories) ==
    [i \in 1..Len(memories) |->
        [tipo     |-> <<"a","m","b","i","g","u","i","d","a","d","e">>,
         conteudo |-> memories[i].conteudo,
         dominio  |-> memories[i].dominio]]

\* has_agent: memory_agent is not None; store: its long-term memory
memory_recall_node(st, has_agent, store) ==
    memory_recall_update(st, has_agent,
        IF has_agent
        THEN memory_context_of(str_slice(recall_ambiguity_resolutions(store, st.original_query),
                                         0, MEMORY_CONTEXT_LIMIT))
        ELSE <<>>)

\* ambiguity_fallback that asks for a clarification
ambiguity_fallback_clarify(st) ==
    PyDict(<< <<"n","o","r","m","a","l","i","z","e","d","_","q","u","e","s","t","i","o","n">>, <<"a","m","b","i","g","u","i","t","i","e","s","_","d","e","t","e","c","t","e","d">>, <<"r","e","q","u","i","r","e","s","_","c","l","a","r","i","f","i","c","a","t","i","o","n">> >>,
           << PyStr(st.original_query), PyList(<<>>), PyBool(TRUE) >>)

ambiguity_fallback(st) ==
    PyDict(<< <<"n","o","r","m","a","l","i","z","e","d","_","q","u","e","s","t","i","o","n">>, <<"a","m","b","i","g","u","i","t","i","e","s","_","d","e","t","e","c","t","e","d">>, <<"r","e","q","u","i","r","e","s","_","c","l","a","r","i","f","i","c","a","t","i","o","n">> >>,
           << PyStr(st.original_query), PyList(<<>>), PyBool(FALSE) >>)

\* ambiguity_resolver_node from the parsed reply on
ambiguity_update(st, ambiguity, calls) ==
    \* the two print lines: [:100] of the question, len() of the list
    IF ~py_sliceable(dict_get(ambiguity, <<"n","o","r","m","a","l","i","z","e","d","_","q","u","e","s","t","i","o","n">>, PyStr(<<>>)))
       \/ ~py_sized(dict_get(ambiguity, <<"a","m","b","i","g","u","i","t","i","e","s","_","d","e","t","e","c","t","e","d">>, PyList(<<>>)))
    THEN NodeRaise(calls)
    ELSE NodeReturn(
            [normalized_query   |-> dict_get(ambiguity, <<"n","o","r","m","a","l","i","z","e","d","_","q","u","e","s","t","i","o","n">>, PyStr(st.original_query)),
             ambiguity_result   |-> ambiguity,
             ambiguity_resolved |-> TRUE,
             memory_status      |-> status_set(status_copy(st), "ambiguidade_resolvida", TRUE)],
            calls)

\* ambiguity_resolver_node without the early return
ambiguity_resolver_node_again(st, reply) ==
    IF reply.raised THEN NodeRaise(<< GatewayCall("ambiguity_resolver", FALSE, FALSE) >>)
    ELSE ambiguity_update(st,
             py_or(safe_parse_json(normalize_llm_content(reply.content)), ambiguity_fallback(st)),
             << GatewayCall("ambiguity_resolver", FALSE, TRUE) >>)

ambiguity_resolver_node(st, reply) ==
    IF st.ambiguity_resolved THEN NodeReturn(NoUpdate, <<>>)
    ELSE IF reply.raised THEN NodeRaise(<< GatewayCall("ambiguity_resolver", FALSE, FALSE) >>)
    ELSE ambiguity_update(st,
             py_or(safe_parse_json(normalize_llm_content(reply.content)), ambiguity_fallback(st)),
             << GatewayCall("ambiguity_resolver", FALSE, TRUE) >>)

\* one pass of the loop over the plan: "raise", "true" (return True) or "next"
visualization_step(step) ==
    IF step.ty # "dict" THEN "raise"
    ELSE LET agent == dict_get(step, <<"a","g","e","n","t">>, PyStr(<<>>))
             task  == dict_get(step, <<"t","a","s","k">>, PyStr(<<>>))
         IN  IF agent.ty # "str" \/ task.ty # "str" THEN "raise"
             ELSE IF str_contains(str_lower(agent.s), <<"v","i","s","u","a","l","i","z","a","t","i","o","n">>)
                     \/ str_contains(str_lower(task.s), <<"v","i","s","u","a","l","i","z","a","c_cedil","a_tilde","o">>) THEN "true"
             ELSE "next"

\* the outcome of the first pass that leaves the loop
first_decided(outcome, decided) ==
    IF decided = {} THEN [raised |-> FALSE, value |-> FALSE]
    ELSE [raised |-> outcome[SetMin(decided)] = "raise",
          value  |-> outcome[SetMin(decided)] = "true"]

\* the outcomes of the passes over the steps
step_outcomes(steps) == [i \in 1..Len(steps) |-> visualization_step(steps[i])]

\* the loop over the plan
plan_requests_visualization(outcome) ==
    first_decided(outcome, {i \in 1..Len(outcome) : outcome[i] # "next"})

\* check_visualization_requested that looks for the keywords without query.lower()
check_visualization_requested_cased(query, plan) ==
    IF query.ty # "str" THEN [raised |-> TRUE, value |-> FALSE]
    ELSE IF \E k \in 1..Len(VISUALIZATION_KEYWORDS) :
                str_contains(query.s, VISUALIZATION_KEYWORDS[k])
         THEN [raised |-> FALSE, value |-> TRUE]
    ELSE IF ~py_sized(plan) THEN [raised |-> TRUE, value |-> FALSE]
    ELSE plan_requests_visualization(step_outcomes(py_iter(plan)))

\* [raised, value]
check_visualization_requested(query, plan) ==
    IF query.ty # "str" THEN [raised |-> TRUE, value |-> FALSE]
    ELSE IF \E k \in 1..Len(VISUALIZATION_KEYWORDS) :
                str_contains(str_lower(query.s), VISUALIZATION_KEYWORDS[k])
         THEN [raised |-> FALSE, value |-> TRUE]
    ELSE IF ~py_sized(plan) THEN [raised |-> TRUE, value |-> FALSE]
    ELSE plan_requests_visualization(step_outcomes(py_iter(plan)))

\* the planner's print loop: step.get('agent'), step.get('task', '')[:50]
steps_print_raises(steps) ==
    \E i \in 1..Len(steps) :
        \/ steps[i].ty # "dict"
        \/ ~py_sliceable(dict_get(steps[i], <<"t","a","s","k">>, PyStr(<<>>)))

\* len(plan) and the print loop
plan_print_raises(plan) == ~py_sized(plan) \/ steps_print_raises(py_iter(plan))

\* planner_node from the visualization check on
planner_checked(plan_data, plan, requested, calls) ==
    IF requested.raised \/ plan_print_raises(plan) THEN NodeRaise(calls)
    ELSE NodeReturn([plan |-> plan,
                     visualization_requested |->
                         IF ~py_truthy(plan_data) THEN PyBool(requested.value)
                         ELSE IF requested.value THEN PyBool(TRUE)
                         ELSE dict_get(plan_data, <<"r","e","q","u","i","r","e","s","_","v","i","s","u","a","l","i","z","a","t","i","o","n">>, PyBool(FALSE))],
                    calls)

\* planner_node from the extracted plan on
planner_plan(st, plan_data, plan, calls) ==
    planner_checked(plan_data, plan, check_visualization_requested(st.normalized_query, plan), calls)

\* planner_node from the parsed reply on
planner_update(st, plan_data, calls) ==
    planner_plan(st, plan_data,
                 IF py_truthy(plan_data) THEN dict_get(plan_data, <<"s","t","e","p","s">>, PyList(<<>>))
                 ELSE PyList(<<>>),
                 calls)

planner_node(st, reply) ==
    IF reply.raised THEN NodeRaise(<< GatewayCall("planner", FALSE, FALSE) >>)
    ELSE planner_update(st, safe_parse_json(normalize_llm_content(reply.content)),
                        << GatewayCall("planner", FALSE, TRUE) >>)

VISUALIZATION_AGENT == PyStr(<<"V","i","s","u","a","l","i","z","a","t","i","o","n","A","g","e","n","t">>)

\* agent_result that records a failed call as a success with an empty response
agent_result_unflagged(agent_name, reply) ==
    IF reply.raised
    THEN [agent |-> agent_name, response |-> <<>>, success |-> TRUE]
    ELSE [agent |-> agent_name, response |-> normalize_llm_content(reply.content), success |-> TRUE]

\* the AgentResult of one plan step
agent_result(agent_name, reply) ==
    IF reply.raised
    THEN [agent |-> agent_name, response |-> <<"E","r","r","o",":"," ">> \o py_str(reply.content), success |-> FALSE]
    ELSE [agent |-> agent_name, response |-> normalize_llm_content(reply.content), success |-> TRUE]

\* the plan steps the executor's loop invokes the gateway for
executed_steps(plan) ==
    SelectSeq(py_iter(plan),
              LAMBDA step : step.ty = "dict"
                            /\ dict_get(step, <<"a","g","e","n","t">>, PyStr(<<>>)) # VISUALIZATION_AGENT)

RECURSIVE run_steps(_, _, _)
\* the loop over the plan: steps left, replies left (one per invoked step), responses so far
run_steps(steps, replies, responses) ==
    IF steps = <<>> THEN [raised |-> FALSE, responses |-> responses]
    ELSE IF Head(steps).ty # "dict" THEN [raised |-> TRUE, responses |-> responses]
    ELSE LET agent_name == dict_get(Head(steps), <<"a","g","e","n","t">>, PyStr(<<>>))
         IN  IF agent_name = VISUALIZATION_AGENT
             THEN run_steps(Tail(steps), replies, responses)
             ELSE run_steps(Tail(steps), Tail(replies),
                            Append(responses, agent_result(agent_name, Head(replies))))

\* concatenated_report with the blocks last to first
concatenated_report_reversed(responses) ==
    str_join(<<"\n", "\n">>,
             [i \in 1..Len(responses) |->
                 <<"[">> \o py_str(responses[Len(responses) + 1 - i].agent) \o <<"]", ":", " ">>
                     \o responses[Len(responses) + 1 - i].response])

\* "\n\n".join(f"[{r['agent']}]: {r['response']}")
concatenated_report(responses) ==
    str_join(<<"\n", "\n">>,
             [i \in 1..Len(responses) |->
                 <<"[">> \o py_str(responses[i].agent) \o <<"]", ":", " ">> \o responses[i].response])

RECURSIVE agent_calls_retried(_, _)
\* agent_calls with every failed step invoked a second time
agent_calls_retried(responses, supports_tools) ==
    IF responses = <<>> THEN <<>>
    ELSE agent_calls_retried(SubSeq(responses, 1, Len(responses) - 1), supports_tools)
         \o (IF responses[Len(responses)].success
             THEN << GatewayCall("executor.agent", supports_tools, TRUE) >>
             ELSE << GatewayCall("executor.agent", supports_tools, FALSE),
                     GatewayCall("executor.agent", supports_tools, FALSE) >>)

\* the gateway calls of the loop
agent_calls(responses, supports_tools) ==
    [i \in 1..Len(responses) |-> GatewayCall("executor.agent", supports_tools, responses[i].success)]

\* executor_update that issues the consolidation call for an empty list of responses too
executor_update_always_reports(raised, responses, supports_tools, report_reply) ==
    IF raised THEN NodeRaise(agent_calls(responses, supports_tools))
    ELSE NodeReturn([subagent_responses |-> responses,
                     sources            |-> [i \in 1..Len(responses) |-> responses[i].agent],
                     final_report       |->
                         IF report_reply.raised THEN concatenated_report(responses)
                         ELSE normalize_llm_content(report_reply.content)],
                    Append(agent_calls(responses, supports_tools),
                           GatewayCall("executor.report", FALSE, ~report_reply.raised)))

\* executor_node after the loop over the plan
executor_update(raised, responses, supports_tools, report_reply) ==
    IF raised THEN NodeRaise(agent_calls(responses, supports_tools))
    ELSE NodeReturn([subagent_responses |-> responses,
                     sources            |-> [i \in 1..Len(responses) |-> responses[i].agent],
                     final_report       |->
                         IF responses = <<>> THEN <<>>
                         ELSE IF report_reply.raised THEN concatenated_report(responses)
                         ELSE normalize_llm_content(report_reply.content)],
                    IF responses = <<>> THEN <<>>
                    ELSE Append(agent_calls(responses, supports_tools),
                                GatewayCall("executor.report", FALSE, ~report_reply.raised)))

\* the loop's outcome handed on
executor_after(run, supports_tools, report_reply) ==
    executor_update(run.raised, run.responses, supports_tools, report_reply)

\* replies: one per invoked plan step; report_reply: the consolidation call's
executor_node(st, supports_tools, replies, report_reply) ==
    IF ~py_sized(st.plan) THEN NodeRaise(<<>>)
    ELSE executor_after(run_steps(py_iter(st.plan), replies, <<>>), supports_tools, report_reply)

\* visualization_node from the parsed reply on
visualization_update(viz, calls) ==
    NodeReturn(
        [visualization_suggestion |->
             IF py_truthy(viz) THEN dict_get(viz, <<"s","u","g","g","e","s","t","i","o","n">>, PyNone) ELSE PyNone,
         visualization_data |->
             IF py_truthy(viz) THEN dict_get(viz, <<"c","h","a","r","t","_","d","a","t","a">>, PyNone) ELSE PyNone],
        calls)

\* visualization_node without the test of visualization_requested
visualization_node_unguarded(st, reply) ==
    IF reply.raised THEN NodeRaise(<< GatewayCall("visualization", FALSE, FALSE) >>)
    ELSE visualization_update(safe_parse_json(normalize_llm_content(reply.content)),
                              << GatewayCall("visualization", FALSE, TRUE) >>)

visualization_node(st, reply) ==
    IF ~py_truthy(st.visualization_requested)
    THEN NodeReturn([visualization_suggestion |-> PyNone, visualization_data |-> PyNone], <<>>)
    ELSE IF reply.raised THEN NodeRaise(<< GatewayCall("visualization", FALSE, FALSE) >>)
    ELSE visualization_update(safe_parse_json(normalize_llm_content(reply.content)),
                              << GatewayCall("visualization", FALSE, TRUE) >>)

generic_phrases ==
    << <<"f","o","r","n","e","c_cedil","a"," ","m","a","i","s"," ","c","o","n","t","e","x","t","o">>,
       <<"p","r","e","c","i","s","o"," ","d","e"," ","m","a","i","s"," ","i","n","f","o","r","m","a","c_cedil","o_tilde","e","s">>,
       <<"n","a_tilde","o"," ","t","e","n","h","o"," ","d","a","d","o","s"," ","s","u","f","i","c","i","e","n","t","e","s">>,
       <<"p","o","r"," ","f","a","v","o","r",","," ","e","s","p","e","c","i","f","i","q","u","e">>,
       <<"n","a_tilde","o"," ","f","o","i"," ","p","o","s","s","i_acute","v","e","l"," ","d","e","t","e","r","m","i","n","a","r">> >>

ValidationKeys == << <<"i","s","_","v","a","l","i","d">>, <<"c","o","m","p","l","e","t","e","n","e","s","s","_","s","c","o","r","e">>, <<"i","s","s","u","e","s">>, <<"s","u","m","m","a","r","y">> >>

validation_too_short ==
    PyDict(ValidationKeys,
           << PyBool(FALSE), PyInt(0),
              PyList(<< PyStr(<<"R","e","l","a","t","o_acute","r","i","o"," ","f","i","n","a","l"," ","v","a","z","i","o"," ","o","u"," ","m","u","i","t","o"," ","c","u","r","t","o">>) >>),
              PyStr(<<"F","a","l","h","a",":"," ","r","e","l","a","t","o_acute","r","i","o"," ","n","a_tilde","o"," ","g","e","r","a","d","o"," ","c","o","r","r","e","t","a","m","e","n","t","e">>) >>)

validation_generic ==
    PyDict(ValidationKeys,
           << PyBool(FALSE), PyInt(20),
              PyList(<< PyStr(<<"R","e","l","a","t","o_acute","r","i","o"," ","c","o","n","t","e_acute","m"," ","f","r","a","s","e","s"," ","g","e","n","e_acute","r","i","c","a","s"," ","o","u"," ","e","v","a","s","i","v","a","s">>) >>),
              PyStr(<<"F","a","l","h","a",":"," ","r","e","s","p","o","s","t","a"," ","g","e","n","e_acute","r","i","c","a"," ","d","e","t","e","c","t","a","d","a">>) >>)

\* a default verdict that rejects the report
validation_default_rejecting ==
    PyDict(ValidationKeys,
           << PyBool(FALSE), PyInt(0), PyList(<<>>), PyStr(<<"V","a","l","i","d","a","c","a","o"," ","a","u","t","o","m","a","t","i","c","a">>) >>)

validation_default ==
    PyDict(ValidationKeys,
           << PyBool(TRUE), PyInt(70), PyList(<<>>), PyStr(<<"V","a","l","i","d","a","c_cedil","a_tilde","o"," ","a","u","t","o","m","a_acute","t","i","c","a">>) >>)

\* final_report is empty or shorter than the minimum
report_too_short(final_report) == final_report = <<>> \/ Len(final_report) < MIN_REPORT_LEN

\* report_is_generic that compares without lower()
report_is_generic_cased(final_report) ==
    \E i \in 1..Len(generic_phrases) : str_contains(final_report, generic_phrases[i])

\* final_report holds a generic phrase
report_is_generic(final_report) ==
    \E i \in 1..Len(generic_phrases) : str_contains(str_lower(final_report), generic_phrases[i])

critic_node(st, reply) ==
    IF report_too_short(st.final_report) THEN NodeReturn([validation |-> validation_too_short], <<>>)
    ELSE IF report_is_generic(st.final_report) THEN NodeReturn([validation |-> validation_generic], <<>>)
    ELSE IF reply.raised THEN NodeRaise(<< GatewayCall("critic", FALSE, FALSE) >>)
    ELSE NodeReturn(
            [validation |-> py_or(safe_parse_json(normalize_llm_content(reply.content)),
                                  validation_default)],
            << GatewayCall("critic", FALSE, TRUE) >>)

\* response_update that also overwrites final_report
response_update_report(st, final_text, calls) ==
    NodeReturn([final_response |-> final_text,
                final_report   |-> final_text,
                memory_status  |-> status_set(status_copy(st), "resposta_entregue", TRUE),
                messages       |-> <<final_text>>],
               calls)

\* response_node from the normalized reply on
response_update(st, final_text, calls) ==
    NodeReturn([final_response |-> final_text,
                memory_status  |-> status_set(status_copy(st), "resposta_entregue", TRUE),
                messages       |-> <<final_text>>],
               calls)

response_node(st, reply) ==
    \* ', '.join(state.get('sources', [])) in the prompt, before the call
    IF \E i \in 1..Len(st.sources) : st.sources[i].ty # "str" THEN NodeRaise(<<>>)
    ELSE IF reply.raised THEN NodeRaise(<< GatewayCall("response", FALSE, FALSE) >>)
    ELSE response_update(st, normalize_llm_content(reply.content),
                         << GatewayCall("response", FALSE, TRUE) >>)

RECURSIVE persist_ambiguities(_, _, _, _)
\* the loop after one memorize call with result r
persist_rest(ambiguities, r, user_id, ts) ==
    persist_ambiguities(ambiguities, r.store, user_id, IF r.created THEN ts + 1 ELSE ts)

\* memory_agent.memorize_ambiguity_resolution(amb.get("term"), amb.get("resolution"),
\* amb.get("domain"))
persist_one(amb, store, user_id, ts) ==
    memorize_ambiguity_resolution(store, user_id,
        dict_get(amb, <<"t","e","r","m">>, PyNone), dict_get(amb, <<"r","e","s","o","l","u","t","i","o","n">>, PyNone), dict_get(amb, <<"d","o","m","a","i","n">>, PyNone), ts)

\* the loop over the detected ambiguities: [raised, store, ts]
persist_ambiguities(ambiguities, store, user_id, ts) ==
    IF ambiguities = <<>> THEN [raised |-> FALSE, store |-> store, ts |-> ts]
    ELSE IF Head(ambiguities).ty # "dict" THEN [raised |-> TRUE, store |-> store, ts |-> ts]
    ELSE persist_rest(Tail(ambiguities), persist_one(Head(ambiguities), store, user_id, ts),
                      user_id, ts)

\* the node's outcome for the loop's outcome r
persist_outcome(r) ==
    [raised |-> r.raised, upd |-> NoUpdate, calls |-> <<>>, store |-> r.store, ts |-> r.ts]

\* memory_persist_node from the detected ambiguities on
persist_detected(ambiguities, store, user_id, ts) ==
    IF ~py_sized(ambiguities)
    THEN [raised |-> TRUE, upd |-> NoUpdate, calls |-> <<>>, store |-> store, ts |-> ts]
    ELSE persist_outcome(persist_ambiguities(py_iter(ambiguities), store, user_id, ts))

\* memory_persist_node without the test of memory_agent
memory_persist_node_unguarded(st, has_agent, store, user_id, ts) ==
    IF ~st.ambiguity_resolved
    THEN [raised |-> FALSE, upd |-> NoUpdate, calls |-> <<>>, store |-> store, ts |-> ts]
    ELSE persist_detected(dict_get(st.ambiguity_result, <<"a","m","b","i","g","u","i","t","i","e","s","_","d","e","t","e","c","t","e","d">>, PyList(<<>>)), store, user_id, ts)

\* [raised, upd, calls, store, ts]: store and ts are the agent's memory and the clock after it
memory_persist_node(st, has_agent, store, user_id, ts) ==
    IF ~has_agent \/ ~st.ambiguity_resolved
    THEN [raised |-> FALSE, upd |-> NoUpdate, calls |-> <<>>, store |-> store, ts |-> ts]
    ELSE persist_detected(dict_get(st.ambiguity_result, <<"a","m","b","i","g","u","i","t","i","e","s","_","d","e","t","e","c","t","e","d">>, PyList(<<>>)), store, user_id, ts)

\* the ambiguity prompt with the recalled memories added to it
prompt_values_with_memory(stage, s) ==
    [original_query |-> s.original_query, active_domains |-> s.active_domains,
     group_context |-> s.group_context, memory_context |-> s.memory_context]

\* the values of the pipeline state that a stage interpolates into the prompts
\* of its gateway calls
prompt_values(stage, s) ==
    CASE stage = "ambiguity_resolver" ->
            [original_query |-> s.original_query, active_domains |-> s.active_domains,
             group_context |-> s.group_context]
      [] stage = "planner" ->
            [normalized_query |-> s.normalized_query, active_domains |-> s.active_domains,
             group_context |-> s.group_context]
      [] stage = "executor" ->
            \* agent prompts (plan steps) and the consolidation prompt
            [plan |-> s.plan, original_query |-> s.original_query,
             normalized_query |-> s.normalized_query, active_domains |-> s.active_domains,
             group_context |-> s.group_context]
      [] stage = "visualization" ->
            [normalized_query |-> s.normalized_query,
             final_report |-> str_slice(s.final_report, 0, 1000)]
      [] stage = "critic" ->
            [original_query |-> s.original_query, normalized_query |-> s.normalized_query,
             final_report |-> s.final_report]
      [] stage = "response" ->
            [original_query |-> s.original_query, normalized_query |-> s.normalized_query,
             sources |-> s.sources, final_report |-> s.final_report,
             validation |-> s.validation]

\* the dict process_query returns
process_query_result(st) ==
    [response                 |-> st.final_response,
     normalized_query         |-> st.normalized_query,
     final_report             |-> st.final_report,
     validation               |-> st.validation,
     memory_status            |-> st.memory_status,
     sources                  |-> st.sources,
     visualization_suggestion |-> st.visualization_suggestion,
     visualization_data       |-> st.visualization_data]

(***************************************************************************)
(* Model registries (config/models.py, config/llm.py) and construction     *)
(***************************************************************************)
DatabricksModelIds ==
    {"databricks-gpt-5-2", "databricks-gpt-5-1", "databricks-gpt-oss-120b",
     "databricks-gpt-oss-20b", "databricks-meta-llama-3-3-70b-instruct",
     "databricks-meta-llama-3-1-8b-instruct", "databricks-meta-llama-3-1-405b-instruct",
     "databricks-qwen3-next-80b-a3b-instruct", "databricks-llama-4-maverick",
     "databricks-gemma-3-12b", "databricks-gte-large-en", "databricks-bge-large-en",
     "databricks-qwen3-embedding-0-6b"}

OpenAIModelIds == {"gpt-4o-mini", "gpt-4o"}

\* config/models.py: identifier -> provider and supports_tools
MODELS_REGISTRY ==
    [id \in DatabricksModelIds \cup OpenAIModelIds |->
        IF id \in OpenAIModelIds
        THEN [provider |-> "openai", supports_tools |-> TRUE]
        ELSE [provider |-> "databricks", supports_tools |-> FALSE]]

\* config/models.py
DEFAULT_MODEL == "databricks-meta-llama-3-3-70b-instruct"

\* config/llm.py: identifier -> provider
AVAILABLE_MODELS ==
    [id \in {"gpt-4o-mini", "gpt-4o", "gpt-4-turbo",
             "gemini-1.5-flash", "gemini-1.5-pro", "gemini-2.0-flash",
             "databricks-dbrx-instruct", "databricks-llama-3-70b", "databricks-mixtral-8x7b"} |->
        IF id \in {"gpt-4o-mini", "gpt-4o", "gpt-4-turbo"} THEN [provider |-> "openai"]
        ELSE IF id \in {"gemini-1.5-flash", "gemini-1.5-pro", "gemini-2.0-flash"}
        THEN [provider |-> "google"]
        ELSE [provider |-> "databricks"]]

\* model_id=None
NoModelId == "None"

\* user_id=None
NoUserId == "None"

\* env: the environment variables that are set
check_api_key_available(provider, env) ==
    CASE provider = "openai"     -> "OPENAI_API_KEY" \in env
      [] provider = "google"     -> "GOOGLE_API_KEY" \in env
      [] provider = "databricks" -> "DATABRICKS_TOKEN" \in env /\ "DATABRICKS_HOST" \in env
      [] OTHER -> FALSE

\* TRUE when create_llm returns a client, FALSE when it raises; client_ok: the
\* provider's client class can be imported and constructed
create_llm(model_id, env, client_ok) ==
    /\ model_id \in DOMAIN AVAILABLE_MODELS
    /\ check_api_key_available(AVAILABLE_MODELS[model_id].provider, env)
    /\ client_ok

\* create_langgraph_workflow that goes on without a client when create_llm raises
create_langgraph_workflow_fallback(user_id, model_id, env, client_ok) ==
    IF (IF model_id \in {NoModelId, ""} THEN DEFAULT_MODEL ELSE model_id) \notin DOMAIN MODELS_REGISTRY
    THEN [error |-> "ValueError", supports_tools |-> FALSE, has_agent |-> FALSE]
    ELSE [error |-> "none", supports_tools |-> FALSE, has_agent |-> user_id \notin {NoUserId, ""}]

\* create_langgraph_workflow up to the compiled graph: error "none" when it returns
create_langgraph_workflow(user_id, model_id, env, client_ok) ==
    LET id == IF model_id \in {NoModelId, ""} THEN DEFAULT_MODEL ELSE model_id
    IN  IF id \notin DOMAIN MODELS_REGISTRY
        THEN [error |-> "ValueError", supports_tools |-> FALSE, has_agent |-> FALSE]
        ELSE IF ~create_llm(id, env, client_ok)
        THEN [error |-> "RuntimeError", supports_tools |-> FALSE, has_agent |-> FALSE]
        ELSE [error |-> "none", supports_tools |-> MODELS_REGISTRY[id].supports_tools,
              has_agent |-> user_id \notin {NoUserId, ""}]

(***************************************************************************)
(* Inputs: queries and gateway replies                                     *)
(***************************************************************************)
GatewayReturn(content) == [raised |-> FALSE, content |-> content]

GatewayRaise(message) == [raised |-> TRUE, content |-> PyStr(message)]

GatewayTimeout == GatewayRaise(<<"t","i","m","e","o","u","t">>)

Queries == { <<"q","u","a","l"," ","o"," ","l","u","c","r","o"," ","d","o"," ","c","l","i","e","n","t","e">> }

ActiveDomains == << <<"r","e","n","t","a","b","i","l","i","d","a","d","e">> >>

AmbiguityValidText ==
    <<"S","e","g","u","e"," ","o"," ","J","S","O","N",":"," ","{","\"","n","o","r","m","a","l","i","z","e","d","_","q","u","e","s","t","i","o","n","\"",":"," ","\"","l","u","c","r","o"," ","l","i","q","u","i","d","o"," ","d","o"," ","c","l","i","e","n","t","e","\"",","," ","\"","a","m","b","i","g","u","i","t","i","e","s","_","d","e","t","e","c","t","e","d","\"",":"," ","[","{","\"","t","e","r","m","\"",":"," ","\"","l","u","c","r","o","\"",","," ","\"","r","e","s","o","l","u","t","i","o","n","\"",":"," ","\"","l","u","c","r","o"," ","l","i","q","u","i","d","o","\"",","," ","\"","d","o","m","a","i","n","\"",":"," ","\"","r","e","n","t","a","b","i","l","i","d","a","d","e","\"","}","]",","," ","\"","r","e","q","u","i","r","e","s","_","c","l","a","r","i","f","i","c","a","t","i","o","n","\"",":"," ","f","a","l","s","e","}"," ","f","i","m">>

AmbiguityReplies ==
    { GatewayTimeout,
      GatewayReturn(PyNone),
      GatewayReturn(PyStr(<<"n","a","o"," ","s","e","i"," ","r","e","s","p","o","n","d","e","r">>)),
      GatewayReturn(PyStr(<<"[","1",","," ","2","]">>)),
      GatewayReturn(PyStr(<<"{","}">>)),
      GatewayReturn(PyStr(AmbiguityValidText)),
      GatewayReturn(PyList(<< PyDict(<< <<"t","y","p","e">>, <<"t","e","x","t">> >>,
                                     << PyStr(<<"t","e","x","t">>), PyStr(AmbiguityValidText) >>) >>)),
      GatewayReturn(PyStr(<<"{","\"","n","o","r","m","a","l","i","z","e","d","_","q","u","e","s","t","i","o","n","\"",":"," ","\"","g","r","a","f","i","c","o"," ","d","o"," ","l","u","c","r","o"," ","d","o"," ","c","l","i","e","n","t","e","\"",","," ","\"","a","m","b","i","g","u","i","t","i","e","s","_","d","e","t","e","c","t","e","d","\"",":"," ","[","\"","l","u","c","r","o","\"","]","}">>)),
      GatewayReturn(PyStr(<<"{","\"","n","o","r","m","a","l","i","z","e","d","_","q","u","e","s","t","i","o","n","\"",":"," ","n","u","l","l","}">>)),
      GatewayReturn(PyStr(<<"{","\"","n","o","r","m","a","l","i","z","e","d","_","q","u","e","s","t","i","o","n","\"",":"," ","[","\"","l","u","c","r","o","\"","]","}">>)),
      GatewayReturn(PyStr(<<"{","\"","a","m","b","i","g","u","i","t","i","e","s","_","d","e","t","e","c","t","e","d","\"",":"," ","n","u","l","l","}">>)) }

PlannerReplies ==
    { GatewayTimeout,
      GatewayReturn(PyNone),
      GatewayReturn(PyStr(<<"{","}">>)),
      GatewayReturn(PyStr(<<"{","\"","s","t","e","p","s","\"",":"," ","[","{","\"","a","g","e","n","t","\"",":"," ","\"","C","a","d","a","s","t","r","o","A","g","e","n","t","\"",","," ","\"","t","a","s","k","\"",":"," ","\"","d","a","d","o","s"," ","d","o"," ","c","l","i","e","n","t","e","\"",","," ","\"","p","r","i","o","r","i","t","y","\"",":"," ","1","}",","," ","{","\"","a","g","e","n","t","\"",":"," ","\"","R","e","n","t","a","b","i","l","i","d","a","d","e","A","g","e","n","t","\"",","," ","\"","t","a","s","k","\"",":"," ","\"","c","a","l","c","u","l","a","r"," ","l","u","c","r","o","\"",","," ","\"","p","r","i","o","r","i","t","y","\"",":"," ","2","}","]",","," ","\"","r","e","q","u","i","r","e","s","_","v","i","s","u","a","l","i","z","a","t","i","o","n","\"",":"," ","f","a","l","s","e","}">>)),
      GatewayReturn(PyStr(<<"{","\"","s","t","e","p","s","\"",":"," ","[","{","\"","a","g","e","n","t","\"",":"," ","\"","R","e","n","t","a","b","i","l","i","d","a","d","e","A","g","e","n","t","\"",","," ","\"","t","a","s","k","\"",":"," ","\"","c","a","l","c","u","l","a","r"," ","l","u","c","r","o","\"","}",","," ","{","\"","a","g","e","n","t","\"",":"," ","\"","V","i","s","u","a","l","i","z","a","t","i","o","n","A","g","e","n","t","\"",","," ","\"","t","a","s","k","\"",":"," ","\"","b","a","r","r","a","s","\"","}","]","}">>)),
      GatewayReturn(PyStr(<<"{","\"","s","t","e","p","s","\"",":"," ","[","{","\"","a","g","e","n","t","\"",":"," ","\"","R","e","n","t","a","b","i","l","i","d","a","d","e","A","g","e","n","t","\"","}","]",","," ","\"","r","e","q","u","i","r","e","s","_","v","i","s","u","a","l","i","z","a","t","i","o","n","\"",":"," ","t","r","u","e","}">>)),
      GatewayReturn(PyStr(<<"{","\"","s","t","e","p","s","\"",":"," ","n","u","l","l","}">>)),
      GatewayReturn(PyStr(<<"{","\"","s","t","e","p","s","\"",":"," ","[","{","\"","a","g","e","n","t","\"",":"," ","n","u","l","l",","," ","\"","t","a","s","k","\"",":"," ","\"","c","a","l","c","u","l","a","r"," ","l","u","c","r","o","\"","}","]","}">>)),
      GatewayReturn(PyStr(<<"{","\"","s","t","e","p","s","\"",":"," ","[","\"","R","e","n","t","a","b","i","l","i","d","a","d","e","A","g","e","n","t","\"","]","}">>)) }

AgentReplies ==
    { GatewayTimeout,
      GatewayReturn(PyStr(<<"l","u","c","r","o"," ","d","e"," ","1","0"," ","p","o","r"," ","c","e","n","t","o">>)) }

ReportReplies ==
    { GatewayTimeout,
      GatewayReturn(PyStr(<<"l","u","c","r","o"," ","1","0">>)),
      GatewayReturn(PyStr(<<"O"," ","l","u","c","r","o"," ","l","i","q","u","i","d","o"," ","d","o"," ","c","l","i","e","n","t","e"," ","f","o","i"," ","d","e"," ","1","0"," ","p","o","r"," ","c","e","n","t","o"," ","n","o"," ","p","e","r","i","o","d","o"," ","a","n","a","l","i","s","a","d","o",".">>)),
      GatewayReturn(PyStr(<<"P","o","r"," ","f","a","v","o","r",","," ","e","s","p","e","c","i","f","i","q","u","e"," ","o"," ","p","e","r","i","o","d","o"," ","d","e","s","e","j","a","d","o"," ","p","a","r","a"," ","a"," ","a","n","a","l","i","s","e"," ","d","o"," ","l","u","c","r","o",".">>)) }

VisualizationReplies ==
    { GatewayTimeout,
      GatewayReturn(PyNone),
      GatewayReturn(PyStr(<<"{","\"","s","u","g","g","e","s","t","i","o","n","\"",":"," ","\"","b","a","r","r","a","s"," ","p","o","r"," ","m","e","s","\"",","," ","\"","c","h","a","r","t","_","t","y","p","e","\"",":"," ","\"","b","a","r","\"",","," ","\"","c","h","a","r","t","_","d","a","t","a","\"",":"," ","{","\"","l","a","b","e","l","s","\"",":"," ","[","\"","j","a","n","\"","]",","," ","\"","v","a","l","u","e","s","\"",":"," ","[","1","0","]",","," ","\"","t","i","t","l","e","\"",":"," ","\"","l","u","c","r","o","\"","}","}">>)),
      GatewayReturn(PyStr(<<"{","\"","s","u","g","g","e","s","t","i","o","n","\"",":"," ","n","u","l","l",","," ","\"","c","h","a","r","t","_","t","y","p","e","\"",":"," ","n","u","l","l",","," ","\"","c","h","a","r","t","_","d","a","t","a","\"",":"," ","n","u","l","l","}">>)) }

CriticReplies ==
    { GatewayTimeout,
      GatewayReturn(PyStr(<<"r","e","l","a","t","o","r","i","o"," ","a","d","e","q","u","a","d","o">>)),
      GatewayReturn(PyStr(<<"{","\"","i","s","_","v","a","l","i","d","\"",":"," ","f","a","l","s","e",","," ","\"","c","o","m","p","l","e","t","e","n","e","s","s","_","s","c","o","r","e","\"",":"," ","4","0",","," ","\"","i","s","s","u","e","s","\"",":"," ","[","\"","i","n","c","o","m","p","l","e","t","o","\"","]",","," ","\"","s","u","m","m","a","r","y","\"",":"," ","\"","p","a","r","c","i","a","l","\"","}">>)),
      GatewayReturn(PyStr(<<"{","\"","i","s","_","v","a","l","i","d","\"",":"," ","n","u","l","l",","," ","\"","c","o","m","p","l","e","t","e","n","e","s","s","_","s","c","o","r","e","\"",":"," ","\"","a","l","t","o","\"","}">>)) }

ResponseReplies ==
    { GatewayTimeout,
      GatewayReturn(PyNone),
      GatewayReturn(PyStr(<<"O"," ","l","u","c","r","o"," ","l","i","q","u","i","d","o"," ","f","o","i"," ","d","e"," ","1","0"," ","p","o","r"," ","c","e","n","t","o",".">>)) }

\* in both registries, in one of them only, in none, and the default
ModelIdInputs ==
    {"gpt-4o-mini", "databricks-gpt-oss-120b", "gpt-4-turbo", "databricks-dbrx-instruct",
     "modelo-desconhecido", "", NoModelId}

UserIdInputs == {NoUserId, "u1"}

EnvKeys == {"OPENAI_API_KEY", "GOOGLE_API_KEY", "DATABRICKS_TOKEN", "DATABRICKS_HOST"}

\* process_query calls per orchestrator
MaxRuns == 2

(***************************************************************************)
(* State                                                                   *)
(*   orch      the DeepAgentOrchestrator: status "none" before the         *)
(*             constructor ran, "failed" when it raised, "ready" when it   *)
(*             returned                                                    *)
(*   ltm       _long_term_memories: identity -> LongTermMemory             *)
(*   clock     datetime.now(), counted in writes                           *)
(*   pc        "idle", the node about to run, "done" (END) or "raised"     *)
(*             (an exception left process_query)                           *)
(*   st        the AgentState of the current run                           *)
(*   executed  the nodes that ran in the current run, in order             *)
(*   calls     the gateway calls of the current run, in order              *)
(*   runs      the process_query calls made                                *)
(*   disk      the memory files: identity -> the entries of the file       *)
(*             memory_{identity}.json                                      *)
(*   threads   the callers that run beside each other: caller -> its       *)
(*             frame (empty while the program has one caller)              *)
(***************************************************************************)
VARIABLES orch, ltm, clock, pc, st, executed, calls, runs, disk, threads

vars == <<faiss_env, orch, ltm, clock, pc, st, executed, calls, runs, disk, threads>>

\* no memory file exists
NoFiles == <<>>

\* _save_to_disk when the file can be written: the file holds the entries
save_to_disk(files, user_id, entries) ==
    [u \in (DOMAIN files) \cup {user_id} |-> IF u = user_id THEN entries ELSE files[u]]

\* LongTermMemory(user_id): _load_from_disk reads the entries of the identity's
\* file when there is one; _embeddings and _faiss_index start empty
load_from_disk(files, user_id) ==
    IF user_id \in DOMAIN files
    THEN [entries |-> files[user_id], embeddings |-> <<>>, has_index |-> FALSE]
    ELSE EmptyStore

NoOrchestrator ==
    [status |-> "none", error |-> "none", model_id |-> NoModelId, user_id |-> NoUserId,
     supports_tools |-> FALSE, has_agent |-> FALSE]

NoState == <<>>

Init ==
    /\ faiss_env \in {"absent", "near_first"}
    /\ orch = NoOrchestrator
    /\ ltm = <<>>
    /\ clock = 0
    /\ pc = "idle"
    /\ st = NoState
    /\ executed = <<>>
    /\ calls = <<>>
    /\ runs = 0
    /\ disk = NoFiles
    /\ threads = <<>>

\* every agent on the store of one identity
agent_store_shared == IF orch.has_agent THEN ltm["u1"] ELSE EmptyStore

\* the agent's LongTermMemory
agent_store == IF orch.has_agent THEN ltm[orch.user_id] ELSE EmptyStore

\* DeepAgentOrchestrator.__init__
Construct(user_id, model_id, env, client_ok) ==
    /\ orch.status # "ready"
    /\ LET w == create_langgraph_workflow(user_id, model_id, env, client_ok)
       IN  /\ orch' = [status |-> IF w.error = "none" THEN "ready" ELSE "failed",
                       error |-> w.error, model_id |-> model_id, user_id |-> user_id,
                       supports_tools |-> w.supports_tools, has_agent |-> w.has_agent]
           /\ ltm' = IF w.has_agent /\ user_id \notin DOMAIN ltm
                     THEN ltm @@ (user_id :> load_from_disk(disk, user_id)) ELSE ltm
    /\ UNCHANGED <<faiss_env, clock, pc, st, executed, calls, runs, disk, threads>>

\* process_query going on with the state dict of the run before
ProcessQueryResumed(query) ==
    /\ orch.status = "ready"
    /\ pc \in {"idle", "done", "raised"}
    /\ runs < MaxRuns
    /\ st' = IF st = NoState THEN initial_state(query, ActiveDomains)
             ELSE [st EXCEPT !.original_query = query]
    /\ pc' = "memory_recall"
    /\ executed' = <<>>
    /\ calls' = <<>>
    /\ runs' = runs + 1
    /\ UNCHANGED <<faiss_env, orch, ltm, clock, disk, threads>>

\* process_query up to the graph's entry point
ProcessQuery(query) ==
    /\ orch.status = "ready"
    /\ pc \in {"idle", "done", "raised"}
    /\ runs < MaxRuns
    /\ st' = initial_state(query, ActiveDomains)
    /\ pc' = "memory_recall"
    /\ executed' = <<>>
    /\ calls' = <<>>
    /\ runs' = runs + 1
    /\ UNCHANGED <<faiss_env, orch, ltm, clock, disk, threads>>

\* the graph's nodes along its edges from the entry point to END
Stages ==
    <<"memory_recall", "ambiguity_resolver", "planner", "executor",
      "visualization", "critic", "response", "memory_persist">>

\* one node ran with result r; the graph's edge leads to next
Advance(node, next, r) ==
    /\ executed' = Append(executed, node)
    /\ calls' = calls \o r.calls
    /\ IF r.raised
       THEN pc' = "raised" /\ st' = st
       ELSE pc' = next /\ st' = merge_update(st, r.upd)

MemoryRecall ==
    /\ pc = "memory_recall"
    /\ Advance("memory_recall", "ambiguity_resolver",
               memory_recall_node(st, orch.has_agent, agent_store))
    /\ UNCHANGED <<faiss_env, orch, ltm, clock, runs, disk, threads>>

AmbiguityResolver(reply) ==
    /\ pc = "ambiguity_resolver"
    /\ Advance("ambiguity_resolver", "planner", ambiguity_resolver_node(st, reply))
    /\ UNCHANGED <<faiss_env, orch, ltm, clock, runs, disk, threads>>

Planner(reply) ==
    /\ pc = "planner"
    /\ Advance("planner", "executor", planner_node(st, reply))
    /\ UNCHANGED <<faiss_env, orch, ltm, clock, runs, disk, threads>>

\* replies: one per plan step the loop invokes the gateway for
Executor(report_reply) ==
    /\ pc = "executor"
    /\ \E replies \in [1..Len(executed_steps(st.plan)) -> AgentReplies] :
          Advance("executor", "visualization",
                  executor_node(st, orch.supports_tools, replies, report_reply))
    /\ UNCHANGED <<faiss_env, orch, ltm, clock, runs, disk, threads>>

Visualization(reply) ==
    /\ pc = "visualization"
    /\ Advance("visualization", "critic", visualization_node(st, reply))
    /\ UNCHANGED <<faiss_env, orch, ltm, clock, runs, disk, threads>>

Critic(reply) ==
    /\ pc = "critic"
    /\ Advance("critic", "response", critic_node(st, reply))
    /\ UNCHANGED <<faiss_env, orch, ltm, clock, runs, disk, threads>>

Response(reply) ==
    /\ pc = "response"
    /\ Advance("response", "memory_persist", response_node(st, reply))
    /\ UNCHANGED <<faiss_env, orch, ltm, clock, runs, disk, threads>>

\* the node's outcome r applied to the memory and the run
Persisted(r) ==
    /\ Advance("memory_persist", "done", r)
    /\ ltm' = IF orch.has_agent THEN [ltm EXCEPT ![orch.user_id] = r.store] ELSE ltm
    /\ clock' = r.ts
    \* every add wrote the file
    /\ disk' = IF r.ts > clock THEN save_to_disk(disk, orch.user_id, r.store.entries) ELSE disk

MemoryPersist ==
    /\ pc = "memory_persist"
    /\ Persisted(memory_persist_node(st, orch.has_agent, agent_store, orch.user_id, clock))
    /\ UNCHANGED <<faiss_env, orch, runs, threads>>

Next ==
    \/ \E user_id \in UserIdInputs, model_id \in ModelIdInputs,
          env \in SUBSET EnvKeys, client_ok \in BOOLEAN :
          Construct(user_id, model_id, env, client_ok)
    \/ \E query \in Queries : ProcessQuery(query)
    \/ MemoryRecall
    \/ \E reply \in AmbiguityReplies : AmbiguityResolver(reply)
    \/ \E reply \in PlannerReplies : Planner(reply)
    \/ \E report_reply \in ReportReplies : Executor(report_reply)
    \/ \E reply \in VisualizationReplies : Visualization(reply)
    \/ \E reply \in CriticReplies : Critic(reply)
    \/ \E reply \in ResponseReplies : Response(reply)
    \/ MemoryPersist

Spec == Init /\ [][Next]_vars

(***************************************************************************)
(* The memory agent on its own: create_memory_agent(MemoryUser) and calls  *)
(* of memorize on it, the orchestrator never constructed                   *)
(***************************************************************************)
MemoryUser == "u1"

\* entries a store may hold
MaxEntries == 5

\* content, kind and domain of the memorize calls: four contents whose words
\* contain those of the first, the first under another kind and another
\* domain, and a content the gate rejects
MemorizeInputs ==
    {[content |-> c, tipo |-> PREFERENCIA_USUARIO, dominio |-> PyNone] :
        c \in { <<"m","e","t","a"," ","d","e"," ","l","u","c","r","o">>, <<"m","e","t","a"," ","d","e"," ","l","u","c","r","o"," ","a","n","u","a","l">>, <<"m","e","t","a"," ","d","e"," ","l","u","c","r","o"," ","m","e","n","s","a","l">>,
                <<"m","e","t","a"," ","d","e"," ","l","u","c","r","o"," ","t","o","t","a","l">>, <<"c","u","r","t","o">> }}
    \cup {[content |-> <<"m","e","t","a"," ","d","e"," ","l","u","c","r","o">>, tipo |-> DECISAO_TOMADA, dominio |-> PyNone],
          [content |-> <<"m","e","t","a"," ","d","e"," ","l","u","c","r","o">>, tipo |-> PREFERENCIA_USUARIO,
           dominio |-> PyStr(<<"r","e","n","t","a","b","i","l","i","d","a","d","e">>)]}

InitMem ==
    /\ faiss_env \in {"absent", "near_first", "near_last"}
    /\ orch = NoOrchestrator
    /\ ltm = (MemoryUser :> EmptyStore)
    /\ clock = 0
    /\ pc = "idle"
    /\ st = NoState
    /\ executed = <<>>
    /\ calls = <<>>
    /\ runs = 0
    /\ disk = NoFiles
    /\ threads = <<>>

\* the result r of a memorize call applied to the agent's store and the clock
Memorized(r) ==
    /\ ltm' = [ltm EXCEPT ![MemoryUser] = r.store]
    /\ clock' = IF r.created THEN clock + 1 ELSE clock
    /\ disk' = IF r.created THEN save_to_disk(disk, MemoryUser, r.store.entries) ELSE disk

\* MemoryAgent.memorize(content, tipo, dominio)
Memorize(content, tipo, dominio) ==
    /\ Len(ltm[MemoryUser].entries) < MaxEntries
    /\ Memorized(memorize(ltm[MemoryUser], MemoryUser, content, tipo, dominio, clock))
    /\ UNCHANGED <<faiss_env, orch, pc, st, executed, calls, runs, threads>>

NextMem == \E c \in MemorizeInputs : Memorize(c.content, c.tipo, c.dominio)

SpecMem == InitMem /\ [][NextMem]_vars

(***************************************************************************)
(* Callers of the memory agent of MemoryUser.  threads[t] is the frame of  *)
(* caller t: phase "idle", "calling" (memorize was called with args),      *)
(* "adding" (the gate and the duplicate check passed, LongTermMemory.add   *)
(* is next) or "returned" (with ret, NoId for None); n counts the calls    *)
(* that returned, seen is the length of the log at the duplicate check and *)
(* found holds the identifiers of the entries the last recall returned.    *)
(***************************************************************************)
NoCall == [content |-> <<>>, tipo |-> NoTipo, dominio |-> PyNone]

IdleFrame == [phase |-> "idle", args |-> NoCall, ret |-> NoId, n |-> 0, seen |-> 0, found |-> <<>>]

\* memorize calls per caller
MaxCalls == 2

\* the frame when memorize returns id
returned_frame(f, id) == [f EXCEPT !.phase = "returned", !.ret = id, !.n = @ + 1]

\* memorize(c.content, c.tipo, c.dominio) up to LongTermMemory.add: the gate,
\* then the duplicate check
checked_frame(f, c, store) ==
    IF ~should_memorize(c.content, c.tipo) THEN returned_frame(f, NoId)
    ELSE IF check_duplicate(store, c.content, c.tipo, c.dominio) # <<>>
    THEN returned_frame(f, Head(check_duplicate(store, c.content, c.tipo, c.dominio)).embedding_id)
    ELSE [f EXCEPT !.phase = "adding", !.seen = Len(store.entries)]

\* caller t calls memorize(c.content, c.tipo, c.dominio)
MemorizeCall(t, c) ==
    /\ threads[t].phase \in {"idle", "returned"}
    /\ threads[t].n < MaxCalls
    /\ threads' = [threads EXCEPT ![t] = [@ EXCEPT !.phase = "calling", !.args = c, !.ret = NoId]]
    /\ UNCHANGED <<faiss_env, orch, ltm, clock, pc, st, executed, calls, runs, disk>>

\* should_memorize and _check_duplicate of caller t's call
MemorizeCheck(t) ==
    /\ threads[t].phase = "calling"
    /\ \E c \in {threads[t].args} : \E store \in {ltm[MemoryUser]} :
          threads' = [threads EXCEPT ![t] = checked_frame(@, c, store)]
    /\ UNCHANGED <<faiss_env, orch, ltm, clock, pc, st, executed, calls, runs, disk>>

\* the result r of LongTermMemory.add applied; disk_ok: the file can be written
\* (else _save_to_disk logs the OSError and the file stays as it was)
Added(t, r, disk_ok) ==
    /\ ltm' = [ltm EXCEPT ![MemoryUser] = r.store]
    /\ clock' = clock + 1
    /\ disk' = IF disk_ok THEN save_to_disk(disk, MemoryUser, r.store.entries) ELSE disk
    /\ threads' = [threads EXCEPT ![t] = returned_frame(@, r.id)]

\* LongTermMemory.add of caller t's call, and the return of memorize
MemorizeAdd(t, disk_ok) ==
    /\ threads[t].phase = "adding"
    /\ \E c \in {threads[t].args} :
          Added(t, lt_add(ltm[MemoryUser], MemoryUser,
                          MemoryEntry(MemoryUser, c.tipo, c.content, c.dominio), clock), disk_ok)
    /\ UNCHANGED <<faiss_env, orch, pc, st, executed, calls, runs>>

(***************************************************************************)
(* The write gate: one caller, contents at the gate's limits               *)
(***************************************************************************)
\* ch * n
repeated(ch, n) == [i \in 1..n |-> ch]

GateInputs ==
    \* a sensitive token, in each case and kind
    {[content |-> c, tipo |-> k, dominio |-> PyNone] :
        c \in { <<"m","i","n","h","a"," ","p","a","s","s","w","o","r","d"," ","n","o","v","a">>, <<"M","i","n","h","a"," ","P","A","S","S","W","O","R","D"," ","n","o","v","a">> }, k \in MemoryType}
    \cup {[content |-> <<"s","e","n","h","a"," ","d","o"," ","s","i","s","t","e","m","a">>, tipo |-> PREFERENCIA_USUARIO, dominio |-> PyNone],
          [content |-> <<"o"," ","T","o","k","e","n"," ","d","e"," ","a","c","e","s","s","o">>, tipo |-> DECISAO_TOMADA, dominio |-> PyNone],
          [content |-> <<"c","l","i","e","n","t","_","s","e","c","r","e","t"," ","n","o","v","o">>, tipo |-> RESOLUCAO_AMBIGUIDADE, dominio |-> PyNone],
          [content |-> <<"v","a","l","o","r"," ","d","a"," ","A","P","I","_","K","E","Y">>, tipo |-> RESUMO_INTERACAO, dominio |-> PyNone],
          [content |-> <<"c","p","f"," ","d","o"," ","c","l","i","e","n","t","e">>, tipo |-> PREFERENCIA_USUARIO, dominio |-> PyNone],
          [content |-> <<"m","a","r","g","e","m"," ","d","e"," ","l","u","c","r","o">>, tipo |-> DECISAO_TOMADA, dominio |-> PyNone],
          [content |-> <<"c","a","r","t","a","o"," ","d","o"," ","c","l","i","e","n","t","e">>, tipo |-> RESOLUCAO_AMBIGUIDADE, dominio |-> PyNone],
          [content |-> <<"d","a","d","o","s"," ","d","o"," ","c","r","e","d","i","t","_","c","a","r","d">>, tipo |-> RESUMO_INTERACAO, dominio |-> PyNone]}
    \* SQL keywords: two, one, none
    \cup {[content |-> <<"s","e","l","e","c","t"," ","n","o","m","e"," ","f","r","o","m"," ","c","l","i","e","n","t","e","s">>, tipo |-> PREFERENCIA_USUARIO, dominio |-> PyNone],
          [content |-> <<"D","E","L","E","T","E"," ","F","R","O","M"," ","c","l","i","e","n","t","e","s"," ">>, tipo |-> DECISAO_TOMADA, dominio |-> PyNone],
          [content |-> <<"i","n","s","e","r","t"," ","i","n","t","o"," ","t"," ","s","e","l","e","c","t"," ","x">>, tipo |-> RESOLUCAO_AMBIGUIDADE, dominio |-> PyNone],
          [content |-> <<"u","p","d","a","t","e"," ","t"," ","s","e","t"," ","x"," ","f","r","o","m"," ","y"," ","w","h","e","r","e"," ","z">>, tipo |-> RESUMO_INTERACAO, dominio |-> PyNone],
          [content |-> <<"s","e","l","e","c","t"," ","n","o","m","e"," ","f","r","o","m">>, tipo |-> PREFERENCIA_USUARIO, dominio |-> PyNone],
          [content |-> <<"d","a","d","o","s"," ","f","r","o","m"," ","c","l","i","e","n","t","e">>, tipo |-> DECISAO_TOMADA, dominio |-> PyNone],
          [content |-> <<"m","e","t","a"," ","d","e"," ","l","u","c","r","o">>, tipo |-> RESUMO_INTERACAO, dominio |-> PyNone]}
    \* lengths at the limits
    \cup {[content |-> repeated("a", MAX_CONTENT_LEN + 1), tipo |-> RESOLUCAO_AMBIGUIDADE, dominio |-> PyNone],
          [content |-> repeated("a", MAX_CONTENT_LEN), tipo |-> PREFERENCIA_USUARIO, dominio |-> PyNone],
          [content |-> repeated("a", MAX_SUMMARY_LEN), tipo |-> RESUMO_INTERACAO, dominio |-> PyNone],
          [content |-> repeated("a", MAX_SUMMARY_LEN), tipo |-> DECISAO_TOMADA, dominio |-> PyNone],
          [content |-> repeated("a", MAX_SUMMARY_LEN - 1), tipo |-> RESUMO_INTERACAO, dominio |-> PyNone],
          [content |-> repeated("b", MIN_CONTENT_LEN), tipo |-> PREFERENCIA_USUARIO, dominio |-> PyNone],
          [content |-> repeated("b", MIN_CONTENT_LEN - 1), tipo |-> PREFERENCIA_USUARIO, dominio |-> PyNone],
          [content |-> <<" "," "," ","c","u","r","t","o"," "," "," "," ">>, tipo |-> DECISAO_TOMADA, dominio |-> PyNone],
          [content |-> <<>>, tipo |-> RESOLUCAO_AMBIGUIDADE, dominio |-> PyNone]}

GateCaller == "caller"

InitGate ==
    /\ faiss_env \in {"absent", "near_first"}
    /\ orch = NoOrchestrator
    /\ ltm = (MemoryUser :> EmptyStore)
    /\ clock = 0
    /\ pc = "idle"
    /\ st = NoState
    /\ executed = <<>>
    /\ calls = <<>>
    /\ runs = 0
    /\ disk = NoFiles
    /\ threads = (GateCaller :> IdleFrame)

NextGate ==
    \/ \E c \in GateInputs : MemorizeCall(GateCaller, c)
    \/ MemorizeCheck(GateCaller)
    \/ MemorizeAdd(GateCaller, TRUE)

SpecGate == InitGate /\ [][NextGate]_vars

(***************************************************************************)
(* The store of MemoryUser over memorize, recall, clear and restarts of    *)
(* the process, with a file that cannot always be written                  *)
(***************************************************************************)
\* recall's default limit
RECALL_LIMIT == 5

\* the result r of recall returned to caller t
Recalled(t, r) ==
    threads' = [threads EXCEPT ![t] = [@ EXCEPT !.phase = "returned", !.n = @ + 1,
                                         !.found = [k \in 1..Len(r) |-> r[k].embedding_id]]]

\* MemoryAgent.recall(query, tipo=tipo) by caller t
Recall(t, query, tipo) ==
    /\ threads[t].phase \in {"idle", "returned"}
    /\ threads[t].n < MaxCalls
    /\ Recalled(t, recall(ltm[MemoryUser], query, RECALL_LIMIT, tipo, PyNone))
    /\ UNCHANGED <<faiss_env, orch, ltm, clock, pc, st, executed, calls, runs, disk>>

\* LongTermMemory.clear
Clear(disk_ok) ==
    /\ ltm' = [ltm EXCEPT ![MemoryUser] = EmptyStore]
    /\ disk' = IF disk_ok THEN save_to_disk(disk, MemoryUser, <<>>) ELSE disk
    /\ UNCHANGED <<faiss_env, orch, clock, pc, st, executed, calls, runs, threads>>

\* the process ends and starts again: every store is built anew from its file
\* and the calls in progress are gone
Restart ==
    /\ ltm' = [u \in DOMAIN ltm |-> load_from_disk(disk, u)]
    /\ threads' = [t \in DOMAIN threads |-> [IdleFrame EXCEPT !.n = threads[t].n]]
    /\ UNCHANGED <<faiss_env, orch, clock, pc, st, executed, calls, runs, disk>>

InitStore ==
    /\ faiss_env \in {"absent", "near_first"}
    /\ orch = NoOrchestrator
    /\ ltm = (MemoryUser :> EmptyStore)
    /\ clock = 0
    /\ pc = "idle"
    /\ st = NoState
    /\ executed = <<>>
    /\ calls = <<>>
    /\ runs = 0
    /\ disk = NoFiles
    /\ threads = (GateCaller :> IdleFrame)

NextStore ==
    \/ \E c \in MemorizeInputs : MemorizeCall(GateCaller, c)
    \/ MemorizeCheck(GateCaller)
    \/ \E disk_ok \in BOOLEAN : MemorizeAdd(GateCaller, disk_ok)
    \/ \E c \in MemorizeInputs : Recall(GateCaller, c.content, c.tipo)
    \/ \E disk_ok \in BOOLEAN : Clear(disk_ok)
    \/ Restart

SpecStore == InitStore /\ [][NextStore]_vars

(***************************************************************************)
(* Two callers of memorize on the store of MemoryUser, with no lock        *)
(* between the duplicate check and LongTermMemory.add                      *)
(***************************************************************************)
Writers == {"w1", "w2"}

WriterInputs ==
    {[content |-> <<"l","u","c","r","o"," ","r","e","f","e","r","e","-","s","e"," ","a"," ","l","u","c","r","o"," ","l","i","q","u","i","d","o">>, tipo |-> RESOLUCAO_AMBIGUIDADE,
      dominio |-> PyStr(<<"r","e","n","t","a","b","i","l","i","d","a","d","e">>)],
     [content |-> <<"p","r","e","f","e","r","e"," ","g","r","a","f","i","c","o","s"," ","d","e"," ","b","a","r","r","a","s">>, tipo |-> PREFERENCIA_USUARIO, dominio |-> PyNone]}

InitWriters ==
    /\ faiss_env \in {"absent", "near_first", "near_last"}
    /\ orch = NoOrchestrator
    /\ ltm = (MemoryUser :> EmptyStore)
    /\ clock = 0
    /\ pc = "idle"
    /\ st = NoState
    /\ executed = <<>>
    /\ calls = <<>>
    /\ runs = 0
    /\ disk = NoFiles
    /\ threads = [t \in Writers |-> IdleFrame]

NextWriters ==
    \E t \in Writers :
        \/ \E c \in WriterInputs : MemorizeCall(t, c)
        \/ MemorizeCheck(t)
        \/ MemorizeAdd(t, TRUE)

SpecWriters == InitWriters /\ [][NextWriters]_vars

(***************************************************************************)
(* Repeated queries on one orchestrator: DeepAgentOrchestrator(user_id =    *)
(* MemoryUser, model_id = "gpt-4o-mini") has returned, and the ambiguity    *)
(* call is answered with replies that detect resolutions                    *)
(***************************************************************************)
\* a reply that detects four resolutions of one term, the last the one of
\* AmbiguityValidText
AmbiguityManyText ==
    <<"{","\"","n","o","r","m","a","l","i","z","e","d","_","q","u","e","s","t","i","o","n","\"",":"," ","\"","l","u","c","r","o"," ","l","i","q","u","i","d","o"," ","d","o"," ","c","l","i","e","n","t","e","\"",","," ","\"","a","m","b","i","g","u","i","t","i","e","s","_","d","e","t","e","c","t","e","d","\"",":"," ","[","{","\"","t","e","r","m","\"",":"," ","\"","l","u","c","r","o","\"",","," ","\"","r","e","s","o","l","u","t","i","o","n","\"",":"," ","\"","l","u","c","r","o"," ","l","i","q","u","i","d","o"," ","a","n","u","a","l","\"",","," ","\"","d","o","m","a","i","n","\"",":"," ","\"","r","e","n","t","a","b","i","l","i","d","a","d","e","\"","}",","," ","{","\"","t","e","r","m","\"",":"," ","\"","l","u","c","r","o","\"",","," ","\"","r","e","s","o","l","u","t","i","o","n","\"",":"," ","\"","l","u","c","r","o"," ","l","i","q","u","i","d","o"," ","m","e","n","s","a","l","\"",","," ","\"","d","o","m","a","i","n","\"",":"," ","\"","r","e","n","t","a","b","i","l","i","d","a","d","e","\"","}",","," ","{","\"","t","e","r","m","\"",":"," ","\"","l","u","c","r","o","\"",","," ","\"","r","e","s","o","l","u","t","i","o","n","\"",":"," ","\"","l","u","c","r","o"," ","l","i","q","u","i","d","o"," ","t","o","t","a","l","\"",","," ","\"","d","o","m","a","i","n","\"",":"," ","\"","r","e","n","t","a","b","i","l","i","d","a","d","e","\"","}",","," ","{","\"","t","e","r","m","\"",":"," ","\"","l","u","c","r","o","\"",","," ","\"","r","e","s","o","l","u","t","i","o","n","\"",":"," ","\"","l","u","c","r","o"," ","l","i","q","u","i","d","o","\"",","," ","\"","d","o","m","a","i","n","\"",":"," ","\"","r","e","n","t","a","b","i","l","i","d","a","d","e","\"","}","]","}">>

ResolutionReplies ==
    { GatewayReturn(PyStr(AmbiguityValidText)), GatewayReturn(PyStr(AmbiguityManyText)) }

InitRuns ==
    /\ faiss_env \in {"absent", "near_first", "near_last"}
    /\ LET w == create_langgraph_workflow(MemoryUser, "gpt-4o-mini", {"OPENAI_API_KEY"}, TRUE)
       IN  orch = [status |-> "ready", error |-> w.error, model_id |-> "gpt-4o-mini",
                   user_id |-> MemoryUser, supports_tools |-> w.supports_tools,
                   has_agent |-> w.has_agent]
    /\ ltm = (MemoryUser :> EmptyStore)
    /\ clock = 0
    /\ pc = "idle"
    /\ st = NoState
    /\ executed = <<>>
    /\ calls = <<>>
    /\ runs = 0
    /\ disk = NoFiles
    /\ threads = <<>>

NextRuns ==
    \/ \E query \in Queries : ProcessQuery(query)
    \/ MemoryRecall
    \/ \E reply \in ResolutionReplies : AmbiguityResolver(reply)
    \/ \E reply \in PlannerReplies : Planner(reply)
    \/ \E report_reply \in ReportReplies : Executor(report_reply)
    \/ \E reply \in VisualizationReplies : Visualization(reply)
    \/ \E reply \in CriticReplies : Critic(reply)
    \/ \E reply \in ResponseReplies : Response(reply)
    \/ MemoryPersist

SpecRuns == InitRuns /\ [][NextRuns]_vars

(***************************************************************************)
(* Two orchestrators of different identities run beside each other.  The   *)
(* variables orch, pc, st, executed and calls belong to the orchestrator   *)
(* that runs; threads holds the same five of the one that waits, and       *)
(* Switch hands the processor over between two nodes.                      *)
(***************************************************************************)
PairUsers == {"u1", "u2"}

\* DeepAgentOrchestrator(user_id=user_id) after its construction
orchestrator_of(user_id) ==
    [status |-> "ready", error |-> "none", model_id |-> "gpt-4o-mini", user_id |-> user_id,
     supports_tools |-> create_langgraph_workflow(user_id, "gpt-4o-mini", {"OPENAI_API_KEY"}, TRUE).supports_tools,
     has_agent |-> create_langgraph_workflow(user_id, "gpt-4o-mini", {"OPENAI_API_KEY"}, TRUE).has_agent]

\* orchestrator and run of identity u
frame_of(u) ==
    IF u = orch.user_id
    THEN [orch |-> orch, pc |-> pc, st |-> st, executed |-> executed, calls |-> calls]
    ELSE threads[u]

InitPair ==
    /\ faiss_env \in {"absent", "near_first"}
    /\ orch = orchestrator_of("u1")
    /\ ltm = [u \in PairUsers |-> EmptyStore]
    /\ clock = 0
    /\ pc = "idle"
    /\ st = NoState
    /\ executed = <<>>
    /\ calls = <<>>
    /\ runs = 0
    /\ disk = NoFiles
    /\ threads = ("u2" :> [orch |-> orchestrator_of("u2"), pc |-> "idle", st |-> NoState,
                           executed |-> <<>>, calls |-> <<>>])

\* the orchestrator of u runs next, the one that ran waits
Switch(u) ==
    /\ u \in DOMAIN threads
    /\ threads' = (orch.user_id :> frame_of(orch.user_id))
    /\ orch' = threads[u].orch
    /\ pc' = threads[u].pc
    /\ st' = threads[u].st
    /\ executed' = threads[u].executed
    /\ calls' = threads[u].calls
    /\ UNCHANGED <<faiss_env, ltm, clock, runs, disk>>

\* plain text and a failure, for the stages after ambiguity resolution
PairReplies == { GatewayTimeout, GatewayReturn(PyStr(<<"l","u","c","r","o"," ","d","e"," ","1","0"," ","p","o","r"," ","c","e","n","t","o"," ","n","o"," ","p","e","r","i","o","d","o">>)) }

NextPair ==
    \/ \E u \in PairUsers : Switch(u)
    \/ \E query \in Queries : pc = "idle" /\ ProcessQuery(query)
    \/ MemoryRecall
    \/ \E reply \in ResolutionReplies : AmbiguityResolver(reply)
    \/ \E reply \in PairReplies : Planner(reply)
    \/ \E report_reply \in PairReplies : Executor(report_reply)
    \/ \E reply \in PairReplies : Visualization(reply)
    \/ \E reply \in PairReplies : Critic(reply)
    \/ \E reply \in PairReplies : Response(reply)
    \/ MemoryPersist

SpecPair == InitPair /\ [][NextPair]_vars

(***************************************************************************)
(* normalize_llm_content and safe_parse_json on their own: a node reads a  *)
(* reply's content, normalizes it and parses the text                      *)
(***************************************************************************)
\* the blocks a list content is made of
HelperBlocks ==
    {PyStr(<<"a","b">>), PyInt(7), PyNone,
     PyDict(<<<<"t","e","x","t">>>>, <<PyStr(<<"x">>)>>),
     PyDict(<<<<"c","o","n","t","e","n","t">>>>, <<PyStr(<<"y">>)>>),
     PyDict(<<<<"t","e","x","t">>, <<"c","o","n","t","e","n","t">>>>, <<PyStr(<<"x">>), PyStr(<<"y">>)>>),
     PyDict(<<<<"t","e","x","t">>, <<"c","o","n","t","e","n","t">>>>, <<PyStr(<<>>), PyStr(<<"y">>)>>),
     PyDict(<<<<"t","e","x","t">>>>, <<PyStr(<<>>)>>),
     PyDict(<<<<"t","e","x","t">>>>, <<PyNone>>),
     PyDict(<<<<"t","y","p","e">>>>, <<PyStr(<<"i","m","a","g","e">>)>>),
     PyDict(<<<<"t","e","x","t">>>>, <<PyStr(<<"{","\"","a","\"",":"," ","1">>)>>),
     PyDict(<<<<"t","e","x","t">>>>, <<PyStr(<<"}">>)>>)}

\* the texts a string content holds
HelperTexts ==
    {<<>>, <<"n","a","o"," ","s","e","i">>, <<"{","}">>, <<"{","\"","a","\"",":"," ","1","}">>, <<"o","k",":"," ","{","\"","a","\"",":"," ","1","}"," ","f","i","m">>,
     <<"{","\"","a","\"",":"," ","{","\"","b","\"",":"," ","2","}","}">>, <<"{","\"","a","\"",":"," ","1","}"," ","e"," ","{","\"","b","\"",":"," ","2","}">>, <<"[","1",","," ","2","]">>,
     <<"}"," ","{">>, <<"}">>, <<"{">>, <<"{","\"","a","\"",":"," ","1">>, <<"\"","a","\"",":"," ","1","}">>, <<"{","\"","a","\"",":"," ","}">>, <<"{","1","}">>,
     <<"[","{","\"","a","\"",":"," ","1","}","]">>, <<"{","\"","a","\"",":"," ","[","1",","," ","{","\"","b","\"",":"," ","2","}","]","}"," ","}">>}

HelperContents ==
    {PyNone, PyInt(3), PyBool(TRUE), EmptyDict, PyDict(<<<<"a">>>>, <<PyInt(1)>>), PyList(<<>>)}
    \cup {PyStr(t) : t \in HelperTexts}
    \cup {PyList(<<b>>) : b \in HelperBlocks}
    \cup {PyList(<<b1, b2>>) : b1 \in HelperBlocks, b2 \in HelperBlocks}

\* the node holds response.content
ContentFrame(content) == [phase |-> "content", content |-> content, text |-> <<>>, parsed |-> PyNone]

InitHelpers ==
    /\ faiss_env = "absent"
    /\ orch = NoOrchestrator
    /\ ltm = (MemoryUser :> EmptyStore)
    /\ clock = 0
    /\ pc = "idle"
    /\ st = NoState
    /\ executed = <<>>
    /\ calls = <<>>
    /\ runs = 0
    /\ disk = NoFiles
    /\ \E content \in HelperContents : threads = (GateCaller :> ContentFrame(content))

\* content = normalize_llm_content(response.content)
Normalize(t) ==
    /\ threads[t].phase = "content"
    /\ threads' = [threads EXCEPT ![t] = [@ EXCEPT !.phase = "text",
                                                   !.text = normalize_llm_content(threads[t].content)]]
    /\ UNCHANGED <<faiss_env, orch, ltm, clock, pc, st, executed, calls, runs, disk>>

\* parsed = safe_parse_json(content)
SafeParse(t) ==
    /\ threads[t].phase = "text"
    /\ threads' = [threads EXCEPT ![t] = [@ EXCEPT !.phase = "parsed",
                                                   !.parsed = safe_parse_json(threads[t].text)]]
    /\ UNCHANGED <<faiss_env, orch, ltm, clock, pc, st, executed, calls, runs, disk>>

NextHelpers ==
    \/ Normalize(GateCaller)
    \/ SafeParse(GateCaller)

SpecHelpers == InitHelpers /\ [][NextHelpers]_vars

(***************************************************************************)
(* ShortTermMemory: the conversation context of one session                *)
(***************************************************************************)
\* get_context's default limit
CONTEXT_LIMIT == 10

\* add_to_context calls made in one session
MaxContext == 11

Session == "session"

\* ShortTermState() as far as the conversation goes; got is what the last
\* call returned (the empty list standing for None)
NewSession == [phase |-> "session", conversation_context |-> <<>>, got |-> <<>>]

\* list[-limit:]
last_items(list, limit) ==
    IF limit = 0 \/ limit >= Len(list) THEN list
    ELSE SubSeq(list, Len(list) - limit + 1, Len(list))

InitSession ==
    /\ faiss_env = "absent"
    /\ orch = NoOrchestrator
    /\ ltm = (MemoryUser :> EmptyStore)
    /\ clock = 0
    /\ pc = "idle"
    /\ st = NoState
    /\ executed = <<>>
    /\ calls = <<>>
    /\ runs = 0
    /\ disk = NoFiles
    /\ threads = (Session :> NewSession)

\* ShortTermMemory.add_to_context(role, content, metadata)
AddToContext(role, content, metadata) ==
    /\ Len(threads[Session].conversation_context) < MaxContext
    /\ threads' = [threads EXCEPT ![Session].conversation_context =
                                       Append(@, [role |-> role, content |-> content,
                                                  metadata |-> py_or(metadata, EmptyDict)]),
                                   ![Session].got = <<>>]
    /\ UNCHANGED <<faiss_env, orch, ltm, clock, pc, st, executed, calls, runs, disk>>

\* ShortTermMemory.get_context(limit)
GetContext(limit) ==
    /\ threads' = [threads EXCEPT ![Session].got =
                       last_items(threads[Session].conversation_context, limit)]
    /\ UNCHANGED <<faiss_env, orch, ltm, clock, pc, st, executed, calls, runs, disk>>

\* ShortTermMemory.reset(): ShortTermState.reset empties the context
ResetSession ==
    /\ threads[Session].conversation_context # <<>>
    /\ threads' = [threads EXCEPT ![Session].conversation_context = <<>>,
                                   ![Session].got = <<>>]
    /\ UNCHANGED <<faiss_env, orch, ltm, clock, pc, st, executed, calls, runs, disk>>

NextSession ==
    \/ \E role \in {"user", "assistant"} : \E metadata \in {PyNone, EmptyDict} :
           AddToContext(role, <<"o","i">>, metadata)
    \/ GetContext(CONTEXT_LIMIT)
    \/ ResetSession

SpecSession == InitSession /\ [][NextSession]_vars

(***************************************************************************)
(* Plans: one constructed orchestrator, the planner's replies ranging over *)
(* the shapes of a plan                                                    *)
(***************************************************************************)
PlanReplies ==
    { GatewayReturn(PyNone),
      GatewayReturn(PyStr(<<"n","a","o"," ","s","e","i"," ","p","l","a","n","e","j","a","r">>)),
      GatewayReturn(PyStr(<<"{","\"","s","t","e","p","s","\"",":"," ","[","{","\"","a","g","e","n","t","\"",":"," ","\"","R","e","n","t","a","b","i","l","i","d","a","d","e","A","g","e","n","t","\"",","," ","\"","t","a","s","k","\"",":"," ","\"","c","a","l","c","u","l","a","r"," ","l","u","c","r","o","\"","}","]",","," ","\"","r","e","q","u","i","r","e","s","_","v","i","s","u","a","l","i","z","a","t","i","o","n","\"",":"," ","f","a","l","s","e","}">>)),
      GatewayReturn(PyStr(<<"{","\"","s","t","e","p","s","\"",":"," ","[","{","\"","a","g","e","n","t","\"",":"," ","\"","R","e","n","t","a","b","i","l","i","d","a","d","e","A","g","e","n","t","\"",","," ","\"","t","a","s","k","\"",":"," ","\"","c","a","l","c","u","l","a","r"," ","l","u","c","r","o","\"","}",","," ","{","\"","a","g","e","n","t","\"",":"," ","\"","V","i","s","u","a","l","i","z","a","t","i","o","n","A","g","e","n","t","\"",","," ","\"","t","a","s","k","\"",":"," ","\"","l","u","c","r","o"," ","p","o","r"," ","m","e","s","\"","}",","," ","{","\"","a","g","e","n","t","\"",":"," ","\"","C","a","d","a","s","t","r","o","A","g","e","n","t","\"",","," ","\"","t","a","s","k","\"",":"," ","\"","d","a","d","o","s","\"","}","]","}">>)),
      GatewayReturn(PyStr(<<"{","\"","s","t","e","p","s","\"",":"," ","[","{","\"","a","g","e","n","t","\"",":"," ","\"","v","i","s","u","a","l","i","z","a","t","i","o","n","a","g","e","n","t","\"",","," ","\"","t","a","s","k","\"",":"," ","\"","l","u","c","r","o"," ","p","o","r"," ","m","e","s","\"","}",","," ","{","\"","a","g","e","n","t","\"",":"," ","\"","C","a","d","a","s","t","r","o","A","g","e","n","t","\"",","," ","\"","t","a","s","k","\"",":"," ","\"","d","a","d","o","s","\"","}","]","}">>)),
      GatewayReturn(PyStr(<<"{","\"","s","t","e","p","s","\"",":"," ","[","{","\"","a","g","e","n","t","\"",":"," ","\"","R","e","n","t","a","b","i","l","i","d","a","d","e","A","g","e","n","t","\"",","," ","\"","t","a","s","k","\"",":"," ","\"","p","r","e","p","a","r","a","r"," ","v","i","s","u","a","l","i","z","a","c_cedil","a_tilde","o"," ","d","o"," ","l","u","c","r","o","\"","}","]","}">>)),
      GatewayReturn(PyStr(<<"{","\"","s","t","e","p","s","\"",":"," ","[","]",","," ","\"","r","e","q","u","i","r","e","s","_","v","i","s","u","a","l","i","z","a","t","i","o","n","\"",":"," ","t","r","u","e","}">>)),
      GatewayReturn(PyStr(<<"{","\"","s","t","e","p","s","\"",":"," ","[","{","\"","a","g","e","n","t","\"",":"," ","\"","C","a","d","a","s","t","r","o","A","g","e","n","t","\"","}","]",","," ","\"","r","e","q","u","i","r","e","s","_","v","i","s","u","a","l","i","z","a","t","i","o","n","\"",":"," ","n","u","l","l","}">>)),
      GatewayReturn(PyStr(<<"{","\"","s","t","e","p","s","\"",":"," ","[","{","\"","a","g","e","n","t","\"",":"," ","\"","C","a","d","a","s","t","r","o","A","g","e","n","t","\"","}","]",","," ","\"","r","e","q","u","i","r","e","s","_","v","i","s","u","a","l","i","z","a","t","i","o","n","\"",":"," ","1","}">>)),
      GatewayReturn(PyStr(<<"{","\"","s","t","e","p","s","\"",":"," ","[","{","\"","a","g","e","n","t","\"",":"," ","\"","V","i","s","u","a","l","i","z","a","t","i","o","n","A","g","e","n","t","\"","}","]","}">>)) }

\* no reply, and a reply whose normalized question asks for a chart
PlanAmbiguityReplies ==
    { GatewayReturn(PyNone),
      GatewayReturn(PyStr(<<"{","\"","n","o","r","m","a","l","i","z","e","d","_","q","u","e","s","t","i","o","n","\"",":"," ","\"","G","r","a","f","i","c","o"," ","d","o"," ","l","u","c","r","o"," ","d","o"," ","c","l","i","e","n","t","e","\"",","," ","\"","a","m","b","i","g","u","i","t","i","e","s","_","d","e","t","e","c","t","e","d","\"",":"," ","[","]","}">>)) }

NextPlans ==
    \/ \E query \in Queries : ProcessQuery(query)
    \/ MemoryRecall
    \/ \E reply \in PlanAmbiguityReplies : AmbiguityResolver(reply)
    \/ \E reply \in PlanReplies : Planner(reply)
    \/ \E report_reply \in ReportReplies : Executor(report_reply)
    \/ \E reply \in VisualizationReplies : Visualization(reply)
    \/ \E reply \in CriticReplies : Critic(reply)
    \/ \E reply \in ResponseReplies : Response(reply)
    \/ MemoryPersist

SpecPlans == InitRuns /\ [][NextPlans]_vars

(***************************************************************************)
(* Re-entry: the graph is invoked on a state that an earlier pass through  *)
(* MemoryRecall, and possibly through AmbiguityResolver, has returned      *)
(***************************************************************************)
\* the pipeline state after node returned r
state_after(s, r) == merge_update(s, r.upd)

\* the state MemoryRecall returns for query
recalled_state(query) ==
    state_after(initial_state(query, ActiveDomains),
                memory_recall_node(initial_state(query, ActiveDomains), TRUE, EmptyStore))

\* the states the resolver is entered with: not resolved yet, or resolved
\* by an earlier pass (by its fallback, or from a reply with a resolution)
ResumeStates ==
    {recalled_state(query) : query \in Queries}
    \cup {state_after(recalled_state(query), ambiguity_resolver_node(recalled_state(query), reply)) :
              query \in Queries,
              reply \in {GatewayReturn(PyNone), GatewayReturn(PyStr(AmbiguityValidText))}}

InitResume ==
    /\ faiss_env \in {"absent", "near_first", "near_last"}
    /\ LET w == create_langgraph_workflow(MemoryUser, "gpt-4o-mini", {"OPENAI_API_KEY"}, TRUE)
       IN  orch = [status |-> "ready", error |-> w.error, model_id |-> "gpt-4o-mini",
                   user_id |-> MemoryUser, supports_tools |-> w.supports_tools,
                   has_agent |-> w.has_agent]
    /\ ltm = (MemoryUser :> EmptyStore)
    /\ clock = 0
    /\ pc = "ambiguity_resolver"
    /\ st \in ResumeStates
    /\ executed = <<"memory_recall">>
    /\ calls = <<>>
    /\ runs = 1
    /\ disk = NoFiles
    /\ threads = <<>>

NextResume ==
    \/ \E reply \in AmbiguityReplies : AmbiguityResolver(reply)
    \/ \E reply \in PlannerReplies : Planner(reply)

SpecResume == InitResume /\ [][NextResume]_vars

(***************************************************************************)
(* Reads of the store of MemoryUser: a caller of MemoryAgent.recall with   *)
(* every limit, kind and domain filter, and the MemoryRecall stage of a    *)
(* query, on a log that grows by one memorize call at a time               *)
(***************************************************************************)
\* entries the log may hold
MaxStored == 8

\* the memorize calls, in the order they are made: resolutions of one term
\* with and without a domain, between entries of other kinds
RecallEntries ==
    << [content |-> <<"l","u","c","r","o"," ","r","e","f","e","r","e","-","s","e"," ","a"," ","l","u","c","r","o"," ","l","i","q","u","i","d","o"," ","a","n","u","a","l">>, tipo |-> RESOLUCAO_AMBIGUIDADE, dominio |-> PyStr(<<"r","e","n","t","a","b","i","l","i","d","a","d","e">>)],
       [content |-> <<"m","e","t","a"," ","d","e"," ","l","u","c","r","o">>, tipo |-> PREFERENCIA_USUARIO, dominio |-> PyNone],
       [content |-> <<"l","u","c","r","o"," ","r","e","f","e","r","e","-","s","e"," ","a"," ","l","u","c","r","o"," ","l","i","q","u","i","d","o"," ","m","e","n","s","a","l">>, tipo |-> RESOLUCAO_AMBIGUIDADE, dominio |-> PyStr(<<"r","e","n","t","a","b","i","l","i","d","a","d","e">>)],
       [content |-> <<"l","u","c","r","o"," ","r","e","f","e","r","e","-","s","e"," ","a"," ","l","u","c","r","o"," ","l","i","q","u","i","d","o"," ","t","o","t","a","l">>, tipo |-> RESOLUCAO_AMBIGUIDADE, dominio |-> PyNone],
       [content |-> <<"l","u","c","r","o"," ","r","e","f","e","r","e","-","s","e"," ","a"," ","l","u","c","r","o"," ","b","r","u","t","o">>, tipo |-> RESOLUCAO_AMBIGUIDADE, dominio |-> PyStr(<<"r","e","n","t","a","b","i","l","i","d","a","d","e">>)],
       [content |-> <<"m","e","t","a"," ","d","e"," ","l","u","c","r","o"," ","a","n","u","a","l">>, tipo |-> DECISAO_TOMADA, dominio |-> PyStr(<<"r","e","n","t","a","b","i","l","i","d","a","d","e">>)],
       [content |-> <<"l","u","c","r","o"," ","r","e","f","e","r","e","-","s","e"," ","a"," ","l","u","c","r","o"," ","r","e","a","l">>, tipo |-> RESOLUCAO_AMBIGUIDADE, dominio |-> PyStr(<<"r","e","n","t","a","b","i","l","i","d","a","d","e">>)],
       [content |-> <<"l","u","c","r","o"," ","r","e","f","e","r","e","-","s","e"," ","a"," ","l","u","c","r","o"," ","m","e","d","i","o">>, tipo |-> RESOLUCAO_AMBIGUIDADE, dominio |-> PyNone],
       [content |-> <<"l","u","c","r","o"," ","r","e","f","e","r","e","-","s","e"," ","a"," ","l","u","c","r","o"," ","o","p","e","r","a","c","i","o","n","a","l">>, tipo |-> RESOLUCAO_AMBIGUIDADE, dominio |-> PyStr(<<"r","e","n","t","a","b","i","l","i","d","a","d","e">>)] >>

RecallQueries == { <<"l","u","c","r","o"," ","d","o"," ","c","l","i","e","n","t","e">>, <<"c","a","d","a","s","t","r","o"," ","a","t","i","v","o">> }

RecallLimits == {1, 3, RECALL_LIMIT, AMBIGUITY_RECALL_LIMIT}

RecallKinds == {NoTipo, RESOLUCAO_AMBIGUIDADE, PREFERENCIA_USUARIO}

RecallDomains == {PyNone, PyStr(<<"r","e","n","t","a","b","i","l","i","d","a","d","e">>)}

\* the caller's frame: the arguments of its last recall and the list returned
NoRecall ==
    [phase |-> "idle", query |-> <<>>, limit |-> 0, tipo |-> NoTipo, dominio |-> PyNone,
     results |-> <<>>]

InitRecall ==
    /\ faiss_env \in {"absent", "near_first", "near_last"}
    /\ LET w == create_langgraph_workflow(MemoryUser, "gpt-4o-mini", {"OPENAI_API_KEY"}, TRUE)
       IN  orch = [status |-> "ready", error |-> w.error, model_id |-> "gpt-4o-mini",
                   user_id |-> MemoryUser, supports_tools |-> w.supports_tools,
                   has_agent |-> w.has_agent]
    /\ ltm = (MemoryUser :> EmptyStore)
    /\ clock = 0
    /\ pc = "idle"
    /\ st = NoState
    /\ executed = <<>>
    /\ calls = <<>>
    /\ runs = 0
    /\ disk = NoFiles
    /\ threads = (GateCaller :> NoRecall)

\* memorize of the next entry of RecallEntries, between two reads
Remember ==
    /\ pc = "idle"
    /\ threads[GateCaller].phase = "idle"
    /\ Len(ltm[MemoryUser].entries) < MaxStored
    /\ Len(ltm[MemoryUser].entries) < Len(RecallEntries)
    /\ \E c \in {RecallEntries[Len(ltm[MemoryUser].entries) + 1]} :
          Memorized(memorize(ltm[MemoryUser], MemoryUser, c.content, c.tipo, c.dominio, clock))
    /\ UNCHANGED <<faiss_env, orch, pc, st, executed, calls, runs, threads>>

\* MemoryAgent.recall(query, limit, tipo, dominio) by the caller
RecallCall(query, limit, tipo, dominio) ==
    /\ pc = "idle"
    /\ threads[GateCaller].phase = "idle"
    /\ threads' = [threads EXCEPT ![GateCaller] =
                      [phase |-> "returned", query |-> query, limit |-> limit, tipo |-> tipo,
                       dominio |-> dominio,
                       results |-> recall(ltm[MemoryUser], query, limit, tipo, dominio)]]
    /\ UNCHANGED <<faiss_env, orch, ltm, clock, pc, st, executed, calls, runs, disk>>

\* the caller is done with the list
RecallDone ==
    /\ threads[GateCaller].phase = "returned"
    /\ threads' = [threads EXCEPT ![GateCaller] = NoRecall]
    /\ UNCHANGED <<faiss_env, orch, ltm, clock, pc, st, executed, calls, runs, disk>>

\* process_query(query) up to the end of the MemoryRecall stage
RecallRun(query) ==
    /\ threads[GateCaller].phase = "idle"
    /\ ProcessQuery(query)

NextRecall ==
    \/ Remember
    \/ \E query \in RecallQueries, limit \in RecallLimits, tipo \in RecallKinds,
          dominio \in RecallDomains : RecallCall(query, limit, tipo, dominio)
    \/ RecallDone
    \/ \E query \in Queries \cup RecallQueries : RecallRun(query)
    \/ MemoryRecall

SpecRecall == InitRecall /\ [][NextRecall]_vars

(***************************************************************************)
(* Properties of the pipeline                                              *)
(***************************************************************************)
\* C1: every process_query run executes the eight stages exactly once each, in
\* the graph's order, and ends after memory_persist: a run that has ended, by
\* reaching END or by an exception leaving process_query, has executed exactly
\* the eight stages in order.
C1_EveryRunExecutesAllStages == pc \in {"done", "raised"} => executed = Stages

\* C2: whatever content the gateway returns to the ambiguity, planner,
\* visualization, critic and response calls, no exception leaves process_query:
\* a run ends with an exception only when one of those calls itself raised.
C2_ContentNeverRaises ==
    pc = "raised" =>
        \E i \in 1..Len(calls) :
            ~calls[i].ok /\ calls[i].call \notin {"executor.agent", "executor.report"}

\* C3: every run that completes returns a non-empty response text and
\* memory_status["resposta_entregue"] = true.
C3_CompletedRunHasResponse ==
    pc = "done" =>
        /\ process_query_result(st).response # <<>>
        /\ process_query_result(st).memory_status["resposta_entregue"]

\* C4: in every state of a run, ambiguidade_resolvida implies contexto_carregado,
\* and contexto_carregado holds only once memory_recall has run.
C4_ContextBeforeAmbiguity ==
    st # NoState =>
        /\ st.memory_status["ambiguidade_resolvida"] => st.memory_status["contexto_carregado"]
        /\ st.memory_status["contexto_carregado"] =>
              executed # <<>> /\ executed[1] = "memory_recall"

\* a run has resolved the ambiguity after loading the context
C4_Witness ==
    /\ pc = "planner"
    /\ st.memory_status["ambiguidade_resolvida"]
    /\ st.memory_status["contexto_carregado"]

\* C5: within a run no step changes the key set of memory_status or turns a flag
\* that is true back to false.
C5_FlagsMonotone ==
    [][(st # NoState /\ runs' = runs) =>
          /\ DOMAIN st'.memory_status = DOMAIN st.memory_status
          /\ \A k \in DOMAIN st.memory_status : st.memory_status[k] => st'.memory_status[k]]_vars

\* a run with an identity ended with every flag set by its stage and carried over
C5_Witness ==
    /\ pc = "done"
    /\ \A k \in DOMAIN st.memory_status : st.memory_status[k]

\* C6: within a run a step changes a pipeline state field only when the node
\* that runs is the field's owner; memory_status and messages are the only
\* fields several nodes write, and the remaining fields are never changed.
C6_OwnedFields ==
    [][(st # NoState /\ runs' = runs) =>
          LET Owner == [memory_context           |-> "memory_recall",
                        normalized_query         |-> "ambiguity_resolver",
                        ambiguity_result         |-> "ambiguity_resolver",
                        ambiguity_resolved       |-> "ambiguity_resolver",
                        plan                     |-> "planner",
                        visualization_requested  |-> "planner",
                        subagent_responses       |-> "executor",
                        sources                  |-> "executor",
                        final_report             |-> "executor",
                        visualization_suggestion |-> "visualization",
                        visualization_data       |-> "visualization",
                        validation               |-> "critic",
                        final_response           |-> "response"]
          IN  /\ DOMAIN st' = DOMAIN st
              /\ \A f \in DOMAIN Owner : st'[f] # st[f] => pc = Owner[f]
              /\ \A f \in DOMAIN st \ (DOMAIN Owner \cup {"memory_status", "messages"}) :
                    st'[f] = st[f]]_vars

\* a run ended in which every owner wrote its fields
C6_Witness ==
    /\ pc = "done"
    /\ st.memory_context # <<>>
    /\ st.normalized_query # PyStr(st.original_query)
    /\ st.plan.items # <<>>
    /\ st.final_report # <<>>
    /\ st.visualization_data # PyNone
    /\ st.validation # EmptyDict
    /\ st.final_response # <<>>

\* C7: when the gateway call of a plan step raises, the step is recorded with
\* success = false and the error text, every other step is still executed, the
\* consolidation call is still issued and the node returns.
C7_StepFailureIsolated ==
    pc = "executor" =>
        LET steps == executed_steps(st.plan)
        IN  \A report_reply \in ReportReplies :
                \A replies \in [1..Len(steps) -> AgentReplies] :
                    LET r == executor_node(st, orch.supports_tools, replies, report_reply)
                    IN  /\ ~r.raised
                        /\ Len(r.upd.subagent_responses) = Len(steps)
                        /\ \A i \in 1..Len(steps) :
                              IF replies[i].raised
                              THEN r.upd.subagent_responses[i] =
                                      [agent    |-> dict_get(steps[i], <<"a","g","e","n","t">>, PyStr(<<>>)),
                                       response |-> <<"E","r","r","o",":"," ">> \o replies[i].content.s,
                                       success  |-> FALSE]
                              ELSE r.upd.subagent_responses[i].success
                        /\ Len(steps) > 0 =>
                              /\ Len(r.calls) = Len(steps) + 1
                              /\ \A i \in 1..Len(steps) : r.calls[i].call = "executor.agent"
                              /\ r.calls[Len(steps) + 1].call = "executor.report"

\* a run went on after its first plan step failed and its second succeeded
C7_Witness ==
    /\ pc = "done"
    /\ Len(st.subagent_responses) = 2
    /\ ~st.subagent_responses[1].success
    /\ st.subagent_responses[2].success
    /\ \E i \in 1..Len(calls) : calls[i].call = "executor.report"

\* C8: a final_report shorter than the minimum length gets is_valid = false with
\* score 0, a report of sufficient length holding a denylisted phrase gets
\* is_valid = false with score 20, both without a gateway call; otherwise the
\* Critic makes exactly one gateway call.
C8_CriticShortCircuit ==
    pc = "critic" =>
        \A reply \in CriticReplies :
            LET r       == critic_node(st, reply)
                short   == Len(st.final_report) < MIN_REPORT_LEN
                generic == \E i \in 1..Len(generic_phrases) :
                               str_contains(str_lower(st.final_report), generic_phrases[i])
            IN  /\ short =>
                      /\ ~r.raised
                      /\ r.calls = <<>>
                      /\ dict_get(r.upd.validation, <<"i","s","_","v","a","l","i","d">>, PyNone) = PyBool(FALSE)
                      /\ dict_get(r.upd.validation, <<"c","o","m","p","l","e","t","e","n","e","s","s","_","s","c","o","r","e">>, PyNone) = PyInt(0)
                /\ (~short /\ generic) =>
                      /\ ~r.raised
                      /\ r.calls = <<>>
                      /\ dict_get(r.upd.validation, <<"i","s","_","v","a","l","i","d">>, PyNone) = PyBool(FALSE)
                      /\ dict_get(r.upd.validation, <<"c","o","m","p","l","e","t","e","n","e","s","s","_","s","c","o","r","e">>, PyNone) = PyInt(20)
                /\ (~short /\ ~generic) =>
                      /\ Len(r.calls) = 1
                      /\ r.calls[1].call = "critic"

\* the Critic rejected a report of sufficient length for a denylisted phrase
\* without calling the gateway
C8_Witness ==
    /\ pc = "response"
    /\ Len(st.final_report) >= MIN_REPORT_LEN
    /\ dict_get(st.validation, <<"c","o","m","p","l","e","t","e","n","e","s","s","_","s","c","o","r","e">>, PyNone) = PyInt(20)
    /\ \A i \in 1..Len(calls) : calls[i].call # "critic"

\* C9: a constructor call with a model identifier outside the registry, or whose
\* client cannot be created, raises; while no constructor call has returned no
\* query, stage or gateway call has run; and the model of a constructed
\* orchestrator is the requested one, known to both registries.
C9_ConstructionFailsLoudly ==
    /\ orch.status = "none" =>
          \A user_id \in UserIdInputs, model_id \in ModelIdInputs,
             env \in SUBSET EnvKeys, client_ok \in BOOLEAN :
              LET id == IF model_id \in {NoModelId, ""} THEN DEFAULT_MODEL ELSE model_id
              IN  (id \notin DOMAIN MODELS_REGISTRY \/ ~create_llm(id, env, client_ok))
                      => create_langgraph_workflow(user_id, model_id, env, client_ok).error # "none"
    /\ orch.status # "ready" =>
          pc = "idle" /\ runs = 0 /\ st = NoState /\ executed = <<>> /\ calls = <<>>
    /\ orch.status = "ready" =>
          orch.model_id \in (DOMAIN MODELS_REGISTRY) \cap (DOMAIN AVAILABLE_MODELS)

\* a constructor call raised for a model the registry knows but no client exists for
C9_Witness == orch.status = "failed" /\ orch.error = "RuntimeError"

(***************************************************************************)
(* Properties of the memory agent                                          *)
(***************************************************************************)
\* C10: for any store contents, two memorize calls in a row with the same
\* content, kind and domain, the content accepted by the gate, return the same
\* identifier and the second call appends no entry.
C10_MemorizeIdempotent ==
    \A u \in DOMAIN ltm :
        \A c \in MemorizeInputs :
            should_memorize(c.content, c.tipo) =>
                LET first  == memorize(ltm[u], u, c.content, c.tipo, c.dominio, clock)
                    second == memorize(first.store, u, c.content, c.tipo, c.dominio,
                                       IF first.created THEN clock + 1 ELSE clock)
                IN  /\ second.id = first.id
                    /\ Len(second.store.entries) = Len(first.store.entries)

\* C11: when process_query ran twice for one identity and both runs detected
\* the same ambiguity resolution (same term, resolution and domain), the second
\* run's MemoryPersist appended no entry: after both runs the identity's log
\* holds no two entries with the same content, kind and domain.
C11_SecondRunAppendsNothing ==
    (runs = 2 /\ pc = "done") =>
        \A u \in DOMAIN ltm :
            \A i, j \in 1..Len(ltm[u].entries) :
                (/\ ltm[u].entries[i].conteudo = ltm[u].entries[j].conteudo
                 /\ ltm[u].entries[i].tipo = ltm[u].entries[j].tipo
                 /\ ltm[u].entries[i].dominio = ltm[u].entries[j].dominio) => i = j

\* the positions in patterns of the tokens that text holds
found_in(text, patterns) == {i \in 1..Len(patterns) : str_contains(text, patterns[i])}

\* the positions in patterns of the tokens that content holds in any letter case
mentions(content, patterns) == found_in(str_lower(content), patterns)

\* the entries that the identifier returned to caller t designates
returned_entries(t) ==
    {e \in UNION {{ltm[u].entries[i] : i \in 1..Len(ltm[u].entries)} : u \in DOMAIN ltm} :
        e.embedding_id = threads[t].ret}

\* C12: a memorize call returns an identifier only when its content holds, in
\* any letter case, no token of the sensitive denylist, whatever the kind, and
\* the entry designated by the identifier holds no such token.
C12_SensitiveNeverWritten ==
    \A t \in DOMAIN threads :
        (threads[t].phase = "returned" /\ threads[t].ret # NoId) =>
            /\ mentions(threads[t].args.content, sensitive_patterns) = {}
            /\ \A e \in returned_entries(t) : mentions(e.conteudo, sensitive_patterns) = {}

\* a call with an upper-case token returned None while the log holds an entry
C12_Witness ==
    \E t \in DOMAIN threads :
        /\ threads[t].phase = "returned"
        /\ threads[t].ret = NoId
        /\ ltm[MemoryUser].entries # <<>>
        /\ threads[t].args.content # str_lower(threads[t].args.content)
        /\ mentions(threads[t].args.content, sensitive_patterns) # {}

\* content that the rules other than the SQL rule let pass
passes_other_rules(c) ==
    /\ Len(c.content) <= MAX_CONTENT_LEN
    /\ c.tipo = RESUMO_INTERACAO => Len(c.content) < MAX_SUMMARY_LEN
    /\ Len(str_strip(c.content)) >= MIN_CONTENT_LEN
    /\ mentions(c.content, sensitive_patterns) = {}

\* C13: a memorize call returns an identifier only when its content holds at
\* most one keyword of the SQL keyword set, whatever the kind, and the entry
\* designated holds at most one; a call that returns none although its content
\* passes the other rules holds two or more keywords.
C13_SqlNeverWritten ==
    \A t \in DOMAIN threads :
        threads[t].phase = "returned" =>
            /\ threads[t].ret # NoId =>
                  /\ Cardinality(mentions(threads[t].args.content, sql_patterns)) <= 1
                  /\ \A e \in returned_entries(t) :
                        Cardinality(mentions(e.conteudo, sql_patterns)) <= 1
            /\ (threads[t].ret = NoId /\ passes_other_rules(threads[t].args)) =>
                  Cardinality(mentions(threads[t].args.content, sql_patterns)) >= 2

\* a call with two keywords returned None while the log holds an entry with one
C13_Witness ==
    /\ \E t \in DOMAIN threads :
          /\ threads[t].phase = "returned"
          /\ threads[t].ret = NoId
          /\ Cardinality(mentions(threads[t].args.content, sql_patterns)) >= 2
    /\ \E i \in 1..Len(ltm[MemoryUser].entries) :
          Cardinality(mentions(ltm[MemoryUser].entries[i].conteudo, sql_patterns)) = 1

\* C14: a memorize call returns an identifier only when its content has at most
\* 2000 characters and, stripped, at least 10, whatever the kind, and for an
\* interaction summary only when it has fewer than 500; the entries of every log
\* keep the limits of 2000 and 500.
C14_LengthLimits ==
    /\ \A t \in DOMAIN threads :
          (threads[t].phase = "returned" /\ threads[t].ret # NoId) =>
              /\ Len(threads[t].args.content) <= MAX_CONTENT_LEN
              /\ Len(str_strip(threads[t].args.content)) >= MIN_CONTENT_LEN
              /\ threads[t].args.tipo = RESUMO_INTERACAO
                    => Len(threads[t].args.content) < MAX_SUMMARY_LEN
    /\ \A u \in DOMAIN ltm : \A i \in 1..Len(ltm[u].entries) :
          /\ Len(ltm[u].entries[i].conteudo) <= MAX_CONTENT_LEN
          /\ ltm[u].entries[i].tipo = RESUMO_INTERACAO
                => Len(ltm[u].entries[i].conteudo) < MAX_SUMMARY_LEN

\* a call with 2001 characters returned None while the log holds a summary of
\* 499 characters
C14_Witness ==
    /\ \E t \in DOMAIN threads :
          /\ threads[t].phase = "returned"
          /\ Len(threads[t].args.content) = MAX_CONTENT_LEN + 1
          /\ threads[t].ret = NoId
    /\ \E i \in 1..Len(ltm[MemoryUser].entries) :
          /\ ltm[MemoryUser].entries[i].tipo = RESUMO_INTERACAO
          /\ Len(ltm[MemoryUser].entries[i].conteudo) = MAX_SUMMARY_LEN - 1

\* s is a prefix of t
is_prefix(s, t) == Len(s) <= Len(t) /\ SubSeq(t, 1, Len(s)) = s

\* C15: every step other than an explicit clear -- a memorize call, a recall, a
\* restart that reloads the persisted file -- leaves the log of every identity
\* a prefix of the log after it.
C15_AppendOnly ==
    [][(\E disk_ok \in BOOLEAN : Clear(disk_ok))
       \/ \A u \in DOMAIN ltm : is_prefix(ltm[u].entries, ltm'[u].entries)]_vars

\* entry e holds the content, kind and domain of call c
same_call(e, c) == e.conteudo = c.content /\ e.tipo = c.tipo /\ e.dominio = c.dominio

\* C17: the store does not serialize the writers of one identity: when a
\* memorize call appends an entry although the log holds an entry of the same
\* content, kind and domain, that entry was appended by another call after this
\* call's duplicate check; writers that run one at a time append no second one.
C17_DuplicateOnlyByOverlap ==
    [][\A t \in DOMAIN threads :
          (threads[t].phase = "adding" /\ threads'[t].phase = "returned") =>
              \A i \in 1..Len(ltm[MemoryUser].entries) :
                  same_call(ltm[MemoryUser].entries[i], threads[t].args) => i > threads[t].seen]_vars

\* both writers returned a new identifier for the same content, kind and domain
\* and the log holds the two entries
C17_Witness ==
    \E i, j \in 1..Len(ltm[MemoryUser].entries) :
        /\ i < j
        /\ ltm[MemoryUser].entries[i].conteudo = ltm[MemoryUser].entries[j].conteudo
        /\ ltm[MemoryUser].entries[i].tipo = ltm[MemoryUser].entries[j].tipo
        /\ ltm[MemoryUser].entries[i].dominio = ltm[MemoryUser].entries[j].dominio
        /\ \E t, w \in DOMAIN threads :
              /\ t # w
              /\ threads[t].phase = "returned" /\ threads[w].phase = "returned"
              /\ threads[t].ret = ltm[MemoryUser].entries[i].embedding_id
              /\ threads[w].ret = ltm[MemoryUser].entries[j].embedding_id

\* the entries without the time of their identifiers
without_time(entries) ==
    [i \in 1..Len(entries) |-> [entries[i] EXCEPT !.embedding_id = [n |-> @.n, ts |-> 0]]]

\* the log that the run of frame f writes when it runs alone on an empty store
solo_log(f) ==
    IF \E k \in 1..Len(f.executed) : f.executed[k] = "memory_persist"
    THEN without_time(memory_persist_node(f.st, f.orch.has_agent, EmptyStore,
                                          f.orch.user_id, 0).store.entries)
    ELSE <<>>

\* C16: with two process_query runs of different identities interleaved in any
\* way, the log of each identity is the log its run writes alone, and a step of
\* one orchestrator changes neither the run, nor the log, nor the file of the
\* other identity.
C16_NoInterference ==
    /\ [](\A u \in PairUsers : without_time(ltm[u].entries) = solo_log(frame_of(u)))
    /\ [][\A v \in PairUsers :
             /\ frame_of(v)' # frame_of(v) => v = orch.user_id /\ v = orch'.user_id
             /\ v # orch.user_id =>
                   /\ ltm'[v] = ltm[v]
                   /\ (v \in DOMAIN disk') = (v \in DOMAIN disk)
                   /\ v \in DOMAIN disk => disk'[v] = disk[v]]_vars

\* one identity finished and wrote its log while the run of the other, with
\* resolutions of its own to write, waits before its last node
C16_Witness ==
    /\ pc = "done"
    /\ ltm[orch.user_id].entries # <<>>
    /\ \E v \in DOMAIN threads :
          /\ threads[v].pc = "memory_persist"
          /\ threads[v].st.ambiguity_resolved
          /\ Len(ltm[v].entries) = 0
          /\ threads[v].st.ambiguity_result # st.ambiguity_result

\* C18: an orchestrator built with no identity has no memory agent: in every
\* step of its runs memory_context stays empty, MemoryPersist returns no update,
\* and no log or memory file is created or changed, whatever ambiguities were
\* detected.
C18_NoIdentityNoMemory ==
    [][(orch.status = "ready" /\ ~orch.has_agent) =>
          /\ ltm' = ltm
          /\ disk' = disk
          /\ clock' = clock
          /\ st'.memory_context = <<>>
          /\ pc = "memory_persist" => (pc' = "done" /\ st' = st)]_vars

\* a run with no identity ended with a detected ambiguity in its state
C18_Witness ==
    /\ orch.status = "ready"
    /\ ~orch.has_agent
    /\ pc = "done"
    /\ st.ambiguity_resolved
    /\ dict_get(st.ambiguity_result, <<"a","m","b","i","g","u","i","t","i","e","s","_","d","e","t","e","c","t","e","d">>, PyList(<<>>)).items # <<>>
    /\ st.memory_context = <<>>
    /\ ltm = <<>>

\* C19: every process_query call starts from a fresh pipeline state -- the four
\* status flags and ambiguity_resolved false, plan, sub-agent responses, report,
\* validation and messages empty, no node run and no gateway call made --
\* whatever the run before left; of what a run wrote only the long-term memory
\* is there for the next.
C19_FreshStatePerQuery ==
    [][runs' = runs + 1 =>
          /\ DOMAIN st'.memory_status = {"contexto_carregado", "memoria_consultada",
                                          "ambiguidade_resolvida", "resposta_entregue"}
          /\ \A k \in DOMAIN st'.memory_status : st'.memory_status[k] = FALSE
          /\ st'.ambiguity_resolved = FALSE
          /\ st'.plan = PyList(<<>>)
          /\ st'.subagent_responses = <<>>
          /\ st'.final_report = <<>>
          /\ st'.validation = EmptyDict
          /\ st'.messages = <<>>
          /\ executed' = <<>>
          /\ calls' = <<>>
          /\ ltm' = ltm
          /\ disk' = disk]_vars

\* the second run starts, after a first one that ended and left an entry in the log
C19_Witness ==
    /\ runs = 2
    /\ pc = "memory_recall"
    /\ executed = <<>>
    /\ st.memory_status.resposta_entregue = FALSE
    /\ orch.has_agent
    /\ ltm[orch.user_id].entries # <<>>

\* C20: the validation the Critic leaves in the state has a boolean is_valid
\* and an integer completeness_score from 0 to 100, on every path of the node
\* and for every reply of the gateway.
C20_ValidationTyped ==
    (st # NoState /\ st.validation # EmptyDict) =>
        /\ dict_get(st.validation, <<"i","s","_","v","a","l","i","d">>, PyNone).ty = "bool"
        /\ dict_get(st.validation, <<"c","o","m","p","l","e","t","e","n","e","s","s","_","s","c","o","r","e">>, PyNone).ty = "int"
        /\ dict_get(st.validation, <<"c","o","m","p","l","e","t","e","n","e","s","s","_","s","c","o","r","e">>, PyNone).n \in 0..100

(***************************************************************************)
(* C21..C30                                                                *)
(***************************************************************************)
\* item has the key k
has_key(item, k) == \E i \in 1..Len(item.keys) : item.keys[i] = k

\* the string of one block: its "text" field when it has one, else its
\* "content" field, else its string form
block_string(item) ==
    IF item.ty = "dict" /\ has_key(item, <<"t","e","x","t">>)
    THEN py_str(dict_get(item, <<"t","e","x","t">>, PyNone))
    ELSE IF item.ty = "dict" /\ has_key(item, <<"c","o","n","t","e","n","t">>)
    THEN py_str(dict_get(item, <<"c","o","n","t","e","n","t">>, PyNone))
    ELSE py_str(item)

\* C21: normalize returns a string for every content shape; for a list it
\* joins with newline one string per block: the block's "text" field when
\* the block has one, else its "content" field, else its string form.
C21_NormalizeByShape ==
    \A t \in DOMAIN threads :
        LET f == threads[t]
        IN  ("text" \in DOMAIN f /\ f.phase \in {"text", "parsed"}) =>
                /\ f.text \in Seq(STRING)
                /\ f.content.ty = "none" => f.text = <<>>
                /\ f.content.ty = "str" => f.text = f.content.s
                /\ f.content.ty = "list" =>
                       f.text = str_join(<<"\n">>, [i \in 1..Len(f.content.items) |->
                                                        block_string(f.content.items[i])])
                /\ f.content.ty \notin {"none", "str", "list"} => f.text = py_str(f.content)

\* the positions of character ch in text
positions(text, ch) == {i \in 1..Len(text) : text[i] = ch}

\* C22: extract_json returns the parsed value of the span from the first
\* '{' to the last '}' only when that span parses as a JSON object, and
\* None when the text is empty, has no '{', has its last '}' not after its
\* first '{', or the span is malformed.
C22_ExtractJson ==
    \A t \in DOMAIN threads :
        LET f == threads[t]
        IN  ("parsed" \in DOMAIN f /\ f.phase = "parsed") =>
                LET opens  == positions(f.text, "{")
                    closes == positions(f.text, "}")
                IN  IF f.text = <<>> \/ opens = {} \/ closes = {} THEN f.parsed = PyNone
                    ELSE IF SetMax(closes) < SetMin(opens) THEN f.parsed = PyNone
                    ELSE LET span == json_loads(SubSeq(f.text, SetMin(opens), SetMax(closes)))
                         IN  IF span.ok /\ span.v.ty = "dict" THEN f.parsed = span.v
                             ELSE f.parsed = PyNone

\* an object was extracted from a text that has prose before it and a
\* nested object in it
C22_Witness ==
    \E t \in DOMAIN threads :
        /\ "parsed" \in DOMAIN threads[t]
        /\ threads[t].phase = "parsed"
        /\ threads[t].parsed.ty = "dict"
        /\ threads[t].parsed.keys # <<>>
        /\ threads[t].text[1] # "{"

\* C23: the session's conversation window is bounded: after any sequence
\* of add_to_context calls the context holds at most CONTEXT_LIMIT entries.
C23_WindowBounded ==
    \A t \in DOMAIN threads :
        "conversation_context" \in DOMAIN threads[t] =>
            Len(threads[t].conversation_context) <= CONTEXT_LIMIT

\* entries i and j of store have the same kind and domain and word sets
\* whose Jaccard similarity is above 0.9
near_duplicates(store, i, j) ==
    /\ store.entries[i].tipo = store.entries[j].tipo
    /\ store.entries[i].dominio = store.entries[j].dominio
    /\ above_threshold(calculate_similarity(store.entries[i].conteudo, store.entries[j].conteudo))

\* C24: starting from an empty store with a single writer, after any
\* sequence of memorize calls no two entries of the same kind and domain
\* have token-set Jaccard similarity strictly above 0.9.
C24_NoNearDuplicates ==
    \A u \in DOMAIN ltm :
        \A i, j \in 1..Len(ltm[u].entries) :
            near_duplicates(ltm[u], i, j) => i = j

\* the embedding list of store has one embedding per entry, in entry order
index_covers_entries(store) ==
    /\ Len(store.embeddings) = Len(store.entries)
    /\ \A i \in 1..Len(store.entries) :
           store.embeddings[i] = get_embedding(store.entries[i].conteudo)

\* C25: after every write (LongTermMemory.add) the embedding list has one
\* embedding per stored entry, in entry order, also when the entries were
\* loaded from the persisted file before the first add of the process.
C25_IndexCoversEntries ==
    [][\A t \in DOMAIN threads :
           ("phase" \in DOMAIN threads[t] /\ threads[t].phase = "adding"
               /\ threads'[t].phase = "returned")
           => \A u \in DOMAIN ltm' : index_covers_entries(ltm'[u])]_vars

\* node returned in the run: it ran and was not the node that raised
node_returned(node) ==
    \E i \in 1..Len(executed) : executed[i] = node /\ ~(pc = "raised" /\ i = Len(executed))

\* step names a visualization agent by the Planner's detection
\* ("visualization" in agent.lower() of check_visualization_requested)
names_visualization_agent(step) ==
    /\ step.ty = "dict"
    /\ dict_get(step, <<"a","g","e","n","t">>, PyStr(<<>>)).ty = "str"
    /\ str_contains(str_lower(dict_get(step, <<"a","g","e","n","t">>, PyStr(<<>>)).s),
                    <<"v","i","s","u","a","l","i","z","a","t","i","o","n">>)

\* the plan steps that do not name a visualization agent
non_visualization_steps(plan) ==
    SelectSeq(py_iter(plan), LAMBDA step : ~names_visualization_agent(step))

\* C26: the Executor appends exactly one AgentResult per plan step that is
\* not a visualization step, in plan order, and sources is the list of the
\* agent names of those results in the same order; a step that names a
\* visualization agent by the Planner's detection is not executed.
C26_OneResultPerStep ==
    node_returned("executor") =>
        LET steps == non_visualization_steps(st.plan)
        IN  /\ Len(st.subagent_responses) = Len(steps)
            /\ \A i \in 1..Len(steps) :
                   st.subagent_responses[i].agent = dict_get(steps[i], <<"a","g","e","n","t">>, PyStr(<<>>))
            /\ st.sources = [i \in 1..Len(st.subagent_responses) |-> st.subagent_responses[i].agent]

\* no gateway call of the run so far carries one of the labels
no_call(labels) == \A i \in 1..Len(calls) : calls[i].call \notin labels

\* reply was returned by the gateway and holds no parseable JSON object
no_json_object(reply) ==
    ~reply.raised /\ safe_parse_json(normalize_llm_content(reply.content)) = PyNone

count_calls(label) == Cardinality({i \in 1..Len(calls) : calls[i].call = label})

\* node ran in the run (it returned or raised)
node_ran(node) == \E i \in 1..Len(executed) : executed[i] = node

\* C28: no stage retries: in one run the gateway is invoked once by
\* AmbiguityResolver, once by Planner, once per executed plan step, once for
\* consolidation exactly when a step was executed, once by Visualization
\* exactly when visualization_requested, at most once by Critic and once by
\* Response; a failed call is not made again.
C28_NoStageRetries ==
    st # NoState =>
        /\ count_calls("ambiguity_resolver") = (IF node_ran("ambiguity_resolver") THEN 1 ELSE 0)
        /\ count_calls("planner") = (IF node_ran("planner") THEN 1 ELSE 0)
        /\ node_returned("executor") =>
              /\ count_calls("executor.agent") = Len(executed_steps(st.plan))
              /\ count_calls("executor.agent") = Len(st.subagent_responses)
              /\ count_calls("executor.report") = (IF Len(st.subagent_responses) > 0 THEN 1 ELSE 0)
        /\ ~node_ran("executor") => count_calls("executor.agent") + count_calls("executor.report") = 0
        /\ count_calls("visualization") =
              (IF node_ran("visualization") /\ py_truthy(st.visualization_requested) THEN 1 ELSE 0)
        /\ count_calls("critic") <= 1
        /\ ~node_ran("critic") => count_calls("critic") = 0
        /\ count_calls("response") <= 1
        /\ node_returned("response") => count_calls("response") = 1
        /\ ~node_ran("response") => count_calls("response") = 0

\* a run ended in which a plan step and the consolidation call failed and
\* the Visualization stage called the gateway
C28_Witness ==
    /\ pc = "done"
    /\ \E i \in 1..Len(st.subagent_responses) : ~st.subagent_responses[i].success
    /\ \E i \in 1..Len(calls) : calls[i].call = "executor.report" /\ ~calls[i].ok
    /\ count_calls("visualization") = 1
    /\ Len(calls) = 6

\* query holds a visualization-intent keyword, in any letter case
has_visualization_keyword(query) ==
    \E k \in 1..Len(VISUALIZATION_KEYWORDS) :
        str_contains(str_lower(query.s), VISUALIZATION_KEYWORDS[k])

\* the planner's JSON carries the visualization flag with a true value
carries_visualization_flag(reply) ==
    \E plan_data \in {safe_parse_json(normalize_llm_content(reply.content))} :
        /\ py_truthy(plan_data)
        /\ py_truthy(dict_get(plan_data, <<"r","e","q","u","i","r","e","s","_","v","i","s","u","a","l","i","z","a","t","i","o","n">>, PyBool(FALSE)))

\* step's task speaks of a visualization
task_mentions_visualization(step) ==
    /\ step.ty = "dict"
    /\ dict_get(step, <<"t","a","s","k">>, PyStr(<<>>)).ty = "str"
    /\ str_contains(str_lower(dict_get(step, <<"t","a","s","k">>, PyStr(<<>>)).s), <<"v","i","s","u","a","l","i","z","a","c_cedil","a_tilde","o">>)

C30_RecallFlags ==
    (st # NoState /\ node_returned("memory_recall")) =>
        /\ st.memory_status["contexto_carregado"]
        /\ st.memory_status["memoria_consultada"]

\* C30 amended: after the MemoryRecall stage contexto_carregado is true,
\* memoria_consultada is true exactly when the orchestrator has a memory
\* agent, and memory_context is a list of at most MEMORY_CONTEXT_LIMIT
\* items of tipo "ambiguidade", empty without a memory agent.
C30_RecallFlagsByAgent ==
    (st # NoState /\ node_returned("memory_recall")) =>
        /\ st.memory_status["contexto_carregado"]
        /\ st.memory_status["memoria_consultada"] <=> orch.has_agent
        /\ Len(st.memory_context) <= MEMORY_CONTEXT_LIMIT
        /\ \A i \in 1..Len(st.memory_context) : st.memory_context[i].tipo = <<"a","m","b","i","g","u","i","d","a","d","e">>
        /\ ~orch.has_agent => st.memory_context = <<>>

\* MemoryRecall has run on an orchestrator without a memory agent
C30_Witness ==
    /\ pc = "ambiguity_resolver"
    /\ ~orch.has_agent
    /\ st.memory_status["contexto_carregado"]
    /\ ~st.memory_status["memoria_consultada"]
    /\ st.memory_context = <<>>

(***************************************************************************)
(* C31..C40                                                                *)
(***************************************************************************)
\* C31: when the AmbiguityResolver's reply contains no parseable JSON
\* object the stage falls back: normalized_query equals original_query,
\* ambiguity_result has an empty ambiguities_detected list and
\* requires_clarification false, and ambiguity_resolved and
\* memory_status["ambiguidade_resolvida"] become true.
C31_AmbiguityFallback ==
    [][pc = "ambiguity_resolver" =>
          \A reply \in AmbiguityReplies \cup PlanAmbiguityReplies :
              (no_json_object(reply) /\ AmbiguityResolver(reply)) =>
                  /\ pc' = "planner"
                  /\ st'.normalized_query = PyStr(st.original_query)
                  /\ dict_get(st'.ambiguity_result, <<"a","m","b","i","g","u","i","t","i","e","s","_","d","e","t","e","c","t","e","d">>, PyNone) = PyList(<<>>)
                  /\ dict_get(st'.ambiguity_result, <<"r","e","q","u","i","r","e","s","_","c","l","a","r","i","f","i","c","a","t","i","o","n">>, PyNone) = PyBool(FALSE)
                  /\ st'.ambiguity_resolved
                  /\ st'.memory_status["ambiguidade_resolvida"]
                  /\ ~st.ambiguity_resolved
                  /\ ~st.memory_status["ambiguidade_resolvida"]]_vars

\* the stage fell back after a call that returned
C31_Witness ==
    /\ pc = "planner"
    /\ st.normalized_query = PyStr(st.original_query)
    /\ st.ambiguity_result = ambiguity_fallback(st)
    /\ st.ambiguity_resolved
    /\ st.memory_status["ambiguidade_resolvida"]
    /\ calls = << GatewayCall("ambiguity_resolver", FALSE, TRUE) >>

\* C32: if ambiguity_resolved is already true when the AmbiguityResolver
\* stage runs, the stage makes no gateway call and returns an empty update:
\* no field of the pipeline state changes.
C32_ResolvedIsSkipped ==
    [][(pc = "ambiguity_resolver" /\ st.ambiguity_resolved) =>
          /\ pc' = "planner"
          /\ calls' = calls
          /\ st' = st]_vars

\* the stage was entered with a resolution of an earlier pass and skipped
C32_Witness ==
    /\ pc = "planner"
    /\ executed = <<"memory_recall", "ambiguity_resolver">>
    /\ calls = <<>>
    /\ st.ambiguity_resolved
    /\ st.normalized_query # PyStr(st.original_query)

\* the block of one AgentResult: its agent in brackets, a colon, its response
labelled_block(r) == <<"[">> \o py_str(r.agent) \o <<"]",":"," ">> \o r.response

RECURSIVE blocks_in_order(_)
\* the blocks of the responses, first to last, an empty line between two
blocks_in_order(responses) ==
    IF responses = <<>> THEN <<>>
    ELSE IF Len(responses) = 1 THEN labelled_block(responses[1])
    ELSE labelled_block(Head(responses)) \o <<"\n","\n">> \o blocks_in_order(Tail(responses))

\* C33: when at least one plan step was executed and the consolidation call
\* raises, the Executor still returns, with subagent_responses and sources
\* set and final_report the concatenation of one labelled block per
\* AgentResult in plan order.
C33_ConsolidationFallback ==
    (st # NoState /\ \E i \in 1..Len(calls) : calls[i].call = "executor.report" /\ ~calls[i].ok) =>
        /\ node_returned("executor")
        /\ Len(st.subagent_responses) >= 1
        /\ Len(st.subagent_responses) = Len(executed_steps(st.plan))
        /\ st.sources = [i \in 1..Len(st.subagent_responses) |-> st.subagent_responses[i].agent]
        /\ st.final_report = blocks_in_order(st.subagent_responses)
        /\ st.final_report # <<>>

\* the consolidation call failed after two executed steps
C33_Witness ==
    /\ pc = "visualization"
    /\ Len(st.subagent_responses) = 2
    /\ st.subagent_responses[1].agent # st.subagent_responses[2].agent
    /\ calls[Len(calls)] = GatewayCall("executor.report", FALSE, FALSE)
    /\ st.final_report = blocks_in_order(st.subagent_responses)

\* C34: when both Critic heuristics pass and the model's reply holds no
\* parseable JSON object, validation is the default verdict (is_valid true,
\* completeness_score 70, no issues) and the Response stage is next.
C34_DefaultVerdict ==
    [][pc = "critic" =>
          \A reply \in CriticReplies :
              (/\ no_json_object(reply)
               /\ ~report_too_short(st.final_report)
               /\ ~report_is_generic(st.final_report)
               /\ Critic(reply)) =>
                  /\ pc' = "response"
                  /\ dict_get(st'.validation, <<"i","s","_","v","a","l","i","d">>, PyNone) = PyBool(TRUE)
                  /\ dict_get(st'.validation, <<"c","o","m","p","l","e","t","e","n","e","s","s","_","s","c","o","r","e">>, PyNone) = PyInt(70)
                  /\ dict_get(st'.validation, <<"i","s","s","u","e","s">>, PyNone) = PyList(<<>>)
                  /\ calls' = Append(calls, GatewayCall("critic", FALSE, TRUE))]_vars

\* the Critic gave the default verdict after a call that returned prose
C34_Witness ==
    /\ pc = "response"
    /\ ~report_too_short(st.final_report)
    /\ ~report_is_generic(st.final_report)
    /\ calls[Len(calls)] = GatewayCall("critic", FALSE, TRUE)
    /\ dict_get(st.validation, <<"i","s","_","v","a","l","i","d">>, PyNone) = PyBool(TRUE)
    /\ dict_get(st.validation, <<"c","o","m","p","l","e","t","e","n","e","s","s","_","s","c","o","r","e">>, PyNone) = PyInt(70)
    /\ dict_get(st.validation, <<"i","s","s","u","e","s">>, PyNone) = PyList(<<>>)

\* the reply holds a JSON object whose suggestion and chart_data are null
carries_null_visualization(reply) ==
    /\ ~reply.raised
    /\ safe_parse_json(normalize_llm_content(reply.content)).ty = "dict"
    /\ dict_get(safe_parse_json(normalize_llm_content(reply.content)), <<"s","u","g","g","e","s","t","i","o","n">>, PyNone) = PyNone
    /\ dict_get(safe_parse_json(normalize_llm_content(reply.content)), <<"c","h","a","r","t","_","d","a","t","a">>, PyNone) = PyNone

\* C35: the Visualization stage calls the gateway only if
\* visualization_requested is true; when it is false, or the reply holds no
\* parseable JSON object or null suggestion and data, visualization_suggestion
\* and visualization_data are null and the Critic is next.
C35_VisualizationGuarded ==
    [][pc = "visualization" =>
          \A reply \in VisualizationReplies :
              Visualization(reply) =>
                  /\ calls' # calls => py_truthy(st.visualization_requested)
                  /\ (\/ ~py_truthy(st.visualization_requested)
                      \/ no_json_object(reply)
                      \/ carries_null_visualization(reply)) =>
                         /\ pc' = "critic"
                         /\ st'.visualization_suggestion = PyNone
                         /\ st'.visualization_data = PyNone]_vars

\* the stage returned without a call, visualization_requested being false
C35_Witness ==
    /\ pc = "critic"
    /\ st.visualization_requested = PyBool(FALSE)
    /\ no_call({"visualization"})
    /\ st.visualization_suggestion = PyNone
    /\ st.visualization_data = PyNone
    /\ st.final_report # <<>>

\* the entries of store whose identifier is id have the kind and domain of c
identifies_same_group(store, c, id) ==
    \A i \in 1..Len(store.entries) :
        store.entries[i].embedding_id = id =>
            /\ store.entries[i].tipo = c.tipo
            /\ store.entries[i].dominio = c.dominio

\* r, the result of memorize for c, names no existing entry of another group
returns_same_group(store, c, r) ==
    (r.id # NoId /\ ~r.created) => identifies_same_group(store, c, r.id)

\* C36: memorize never returns the identifier of an existing entry whose kind
\* or domain differs from the candidate's, a candidate without a domain being
\* compared only with entries without a domain.
C36_DuplicateSameGroup ==
    \A c \in MemorizeInputs :
        returns_same_group(ltm[MemoryUser], c,
            memorize(ltm[MemoryUser], MemoryUser, c.content, c.tipo, c.dominio, clock))

\* e is an entry of the log of MemoryUser
in_log(e) == \E i \in 1..Len(ltm[MemoryUser].entries) : ltm[MemoryUser].entries[i] = e

\* the memory_context item was made of an ambiguity resolution of the log
from_resolution(item) ==
    \E i \in 1..Len(ltm[MemoryUser].entries) :
        /\ ltm[MemoryUser].entries[i].tipo = RESOLUCAO_AMBIGUIDADE
        /\ ltm[MemoryUser].entries[i].conteudo = item.conteudo
        /\ ltm[MemoryUser].entries[i].dominio = item.dominio

\* the list f.results answers the call f.query, f.limit, f.tipo, f.dominio
recall_answers(f) ==
    /\ Len(f.results) <= f.limit
    /\ \A k \in 1..Len(f.results) :
          /\ in_log(f.results[k])
          /\ f.results[k].user_id = MemoryUser
          /\ (f.tipo # NoTipo => f.results[k].tipo = f.tipo)
          /\ (f.dominio # PyNone => f.results[k].dominio = f.dominio)

\* C37: recall(query, limit, kind, domain) returns at most limit entries,
\* each one stored in the caller identity's log and matching the kind and
\* domain filters when they are given, and it changes no entry; the
\* MemoryRecall stage keeps at most 5 of them, all ambiguity resolutions.
C37_RecallBounded ==
    /\ [](threads[GateCaller].phase = "returned" => recall_answers(threads[GateCaller]))
    /\ []((st # NoState /\ pc = "ambiguity_resolver") =>
             /\ Len(st.memory_context) <= 5
             /\ \A k \in 1..Len(st.memory_context) : from_resolution(st.memory_context[k]))
    /\ [][(threads[GateCaller].phase = "idle" /\ threads'[GateCaller].phase = "returned")
             => (ltm' = ltm /\ disk' = disk)]_vars

\* recall cut the entries that match its kind and domain filters to its limit
C37_Witness ==
    /\ threads[GateCaller].phase = "returned"
    /\ threads[GateCaller].limit = 3
    /\ threads[GateCaller].tipo = RESOLUCAO_AMBIGUIDADE
    /\ threads[GateCaller].dominio # PyNone
    /\ Len(threads[GateCaller].results) = 3
    /\ Cardinality(filtered_entries(ltm[MemoryUser], RESOLUCAO_AMBIGUIDADE,
                                    threads[GateCaller].dominio)) > 3
    /\ Cardinality(filtered_entries(ltm[MemoryUser], NoTipo, PyNone)) > 5

\* the store reloaded from files holds an entry with the identifier id
reloads(files, id) ==
    \E i \in 1..Len(load_from_disk(files, MemoryUser).entries) :
        load_from_disk(files, MemoryUser).entries[i].embedding_id = id

\* C38: whenever memorize returns the identifier of a newly created entry,
\* reloading the store from storage yields that entry, also when a write to
\* storage fails.
C38_ReturnedIsPersisted ==
    [][(threads[GateCaller].phase = "adding" /\ threads'[GateCaller].phase = "returned")
          => reloads(disk', threads'[GateCaller].ret)]_vars

\* the pipeline state s with nothing recalled
nothing_recalled(s) == [s EXCEPT !.memory_context = <<>>]

\* the stage that is next gives, for every reply, the same outcome from s as
\* from c
same_outcome(s, c) ==
    /\ pc = "ambiguity_resolver" =>
          \A reply \in AmbiguityReplies :
              ambiguity_resolver_node(s, reply) = ambiguity_resolver_node(c, reply)
    /\ pc = "planner" =>
          \A reply \in PlannerReplies : planner_node(s, reply) = planner_node(c, reply)
    /\ pc = "executor" =>
          \A report_reply \in ReportReplies :
              \A replies \in [1..Len(executed_steps(s.plan)) -> AgentReplies] :
                  executor_node(s, orch.supports_tools, replies, report_reply)
                      = executor_node(c, orch.supports_tools, replies, report_reply)
    /\ pc = "visualization" =>
          \A reply \in VisualizationReplies :
              visualization_node(s, reply) = visualization_node(c, reply)
    /\ pc = "critic" =>
          \A reply \in CriticReplies : critic_node(s, reply) = critic_node(c, reply)
    /\ pc = "response" =>
          \A reply \in ResponseReplies : response_node(s, reply) = response_node(c, reply)
    /\ pc = "memory_persist" =>
          memory_persist_node(s, orch.has_agent, agent_store, orch.user_id, clock)
              = memory_persist_node(c, orch.has_agent, agent_store, orch.user_id, clock)

\* the prompts and the payload of s are those of c
same_prompts(s, c) ==
    /\ \A stage \in {"ambiguity_resolver", "planner", "executor", "visualization",
                     "critic", "response"} :
          prompt_values(stage, s) = prompt_values(stage, c)
    /\ process_query_result(s) = process_query_result(c)
    /\ "memory_context" \notin DOMAIN process_query_result(s)

\* C39: memory_context is written by MemoryRecall and read by no later
\* stage: with or without the recalled entries a run issues the same gateway
\* prompts, takes the same steps and returns the same payload, which holds no
\* memory_context.
C39_MemoryUnread ==
    /\ []((st # NoState /\ pc # "memory_recall") =>
             /\ same_outcome(st, nothing_recalled(st))
             /\ same_prompts(st, nothing_recalled(st)))
    /\ [][(st # NoState /\ st' # NoState /\ st'.memory_context # st.memory_context)
             => (pc = "memory_recall" \/ pc' = "memory_recall")]_vars

\* a run that recalled an entry has returned its payload
C39_Witness ==
    /\ pc = "done"
    /\ st.memory_context # <<>>
    /\ st.final_response # <<>>
    /\ Len(calls) >= 4

\* the identifier create_langgraph_workflow works with for the argument model_id
resolved_model(model_id) == IF model_id \in {NoModelId, ""} THEN DEFAULT_MODEL ELSE model_id

\* model_id names a model of the model registry whose provider credentials
\* are in env
registered_with_credentials(model_id, env) ==
    /\ resolved_model(model_id) \in DOMAIN MODELS_REGISTRY
    /\ check_api_key_available(MODELS_REGISTRY[resolved_model(model_id)].provider, env)

\* C40: for every identifier of the model registry whose provider
\* credentials are present, DEFAULT_MODEL included when no identifier is
\* given, create_langgraph_workflow creates the chat client and returns a
\* pipeline; the two registries accept the same identifiers.
C40_RegistriesAgree ==
    [][\A user_id \in UserIdInputs, model_id \in ModelIdInputs, env \in SUBSET EnvKeys :
          (registered_with_credentials(model_id, env)
              /\ Construct(user_id, model_id, env, TRUE)) =>
                  /\ orch'.status = "ready"
                  /\ resolved_model(model_id) \in DOMAIN AVAILABLE_MODELS]_vars

====
